---- MODULE Spec2Model ----
(***************************************************************************)
(* A model of the kidney simulation engine of src/src/lib/kidney-simulation.ts *)
(* (lines 1-803, the engine the dashboard imports): the metrics calculator, *)
(* the drug classifier and interaction detector, the treatment simulator,  *)
(* the time projection and the treatment ranker.                            *)
(*                                                                         *)
(* Numbers.  Every JavaScript number that can carry a fraction is held as  *)
(* an integer count of 1/Unit, so 91.7 is 91.7 * Unit.  Unit is chosen so  *)
(* that every product with a coefficient of the source is exact on the     *)
(* input grids used here; Math.round is floor(x + 1/2), computed exactly.  *)
(* The source computes in IEEE doubles: a value that is exactly half-way    *)
(* between two roundings here may sit a hair below the tie there, so a      *)
(* rounded field can differ by one unit of its last place on such inputs,   *)
(* and what predictFutureMetrics derives from that field with it.           *)
(* The three transcendental functions of the source (Math.pow in           *)
(* calculateGFR, Math.log in the CKD-progression score, Math.exp in        *)
(* predictFutureMetrics) are tabulated on the inputs used, rounded to the  *)
(* nearest 1/Unit.  Counts, tablets, stages and ids are plain integers.    *)
(*                                                                         *)
(* Strings.  A medicine name is a sequence of one-character strings, so    *)
(* that String.prototype.includes and toLowerCase are modelled by what     *)
(* they do.                                                                *)
(*                                                                         *)
(* Components.  Two components around the engine are modelled as well, each *)
(* with a specification of its own: the intake form of                      *)
(* PatientIntakeForm.tsx (SpecIntake), whose handleSubmit turns the text of *)
(* each field into a number, and the simulation dashboard with its          *)
(* treatment panel, TreatmentSimulator.tsx (SpecDashboard), whose handlers  *)
(* edit the treatments and sliders, run the three engine calls and bundle   *)
(* the report.  There a treatment id is the digit string of the clock.      *)
(***************************************************************************)
EXTENDS Integers, Sequences, FiniteSets, TLC

VARIABLES
  pc,                \* the engine call that has just returned
  patient,           \* PatientData
  baseline,          \* KidneyMetrics returned by calculateBaselineMetrics
  treatments,        \* Treatment[] passed to the engine
  adjustments,       \* the lifestyle adjustments record
  drugInteractions,  \* DrugInteraction[] returned by detectDrugInteractions
  treatmentRankings, \* TreatmentRanking[] returned by rankTreatmentCombinations
  simulated,         \* KidneyMetrics returned by simulateTreatment, or NoMetrics
  daysAhead,         \* the horizon handed to predictFutureMetrics
  projected,         \* KidneyMetrics returned by predictFutureMetrics, or NoMetrics
  statics,           \* the module's DRUG_INTERACTIONS and MEDICINE_CATEGORIES objects
  step,              \* PatientIntakeForm: the page of the form that is shown
  form,              \* PatientIntakeForm: the text and choice of every field
  clock,             \* Date.now(), in milliseconds since the dashboard was mounted
  reportData         \* Index: the bundle handed to onGenerateReport, or NoReport

vars == <<pc, patient, baseline, treatments, adjustments, drugInteractions,
          treatmentRankings, simulated, daysAhead, projected, statics,
          step, form, clock, reportData>>

\* The state of the components around the engine.
uiVars == <<step, form, clock, reportData>>

-----------------------------------------------------------------------------
(* Fixed-point arithmetic                                                   *)

\* 1.0 in model units: 2^5 * 3 * 5^3.
Unit == 32 * 3 * 125

Num(n) == n * Unit
\* n/10 and n/100 as model numbers (91.7 is Tenths(917)).
Tenths(n) == n * (Unit \div 10)
Hundredths(n) == n * (Unit \div 100)

\* x * (n/d) for a coefficient n/d of the source.
Mul(x, n, d) == (x * n) \div d

Min2(a, b) == IF a < b THEN a ELSE b
Max2(a, b) == IF a > b THEN a ELSE b

clamp(v, min, max) == Min2(Max2(v, min), max)

\* Math.round: the nearest integer, halves going up.
MathRound(x) == ((2 * x + Unit) \div (2 * Unit)) * Unit
round1(v) == ((20 * v + Unit) \div (2 * Unit)) * (Unit \div 10)
round2(v) == ((200 * v + Unit) \div (2 * Unit)) * (Unit \div 100)

\* a / b for a divisor b on the hundredths grid (serum creatinine), truncated
\* to 1/Unit.  A zero divisor is an evaluation error, as the quotient is
\* Infinity or NaN in the source.
divide(a, b) == (a * 100) \div (b \div (Unit \div 100))

-----------------------------------------------------------------------------
(* Strings                                                                  *)

UpperCase == <<"A","B","C","D","E","F","G","H","I","J","K","L","M",
               "N","O","P","Q","R","S","T","U","V","W","X","Y","Z">>
LowerCase == <<"a","b","c","d","e","f","g","h","i","j","k","l","m",
               "n","o","p","q","r","s","t","u","v","w","x","y","z">>

toLowerChar(c) ==
  IF \E i \in 1..26 : UpperCase[i] = c
  THEN LowerCase[CHOOSE i \in 1..26 : UpperCase[i] = c]
  ELSE c

toLowerCase(s) == [i \in 1..Len(s) |-> toLowerChar(s[i])]

\* String.prototype.includes: d occurs in s as a contiguous run.
includes(s, d) ==
  \E i \in 0..(Len(s) - Len(d)) : \A k \in 1..Len(d) : s[i + k] = d[k]

-----------------------------------------------------------------------------
(* The drug interaction table and the drug lexicon                          *)

DRUG_INTERACTIONS ==
  << [drug1 |-> "ace", drug2 |-> "arb", severity |-> "severe",
      description |-> "Dual RAAS blockade",
      effect |-> "Hyperkalemia, hypotension, renal failure risk"],
     [drug1 |-> "ace", drug2 |-> "potassium", severity |-> "severe",
      description |-> "ACEi + K+ supplements",
      effect |-> "Life-threatening hyperkalemia"],
     [drug1 |-> "ace", drug2 |-> "nsaid", severity |-> "moderate",
      description |-> "ACEi + NSAID",
      effect |-> "Reduced antihypertensive effect, acute kidney injury risk"],
     [drug1 |-> "arb", drug2 |-> "potassium", severity |-> "severe",
      description |-> "ARB + K+ supplements",
      effect |-> "Life-threatening hyperkalemia"],
     [drug1 |-> "arb", drug2 |-> "nsaid", severity |-> "moderate",
      description |-> "ARB + NSAID",
      effect |-> "Reduced renal function, fluid retention"],
     [drug1 |-> "metformin", drug2 |-> "contrast", severity |-> "severe",
      description |-> "Metformin + IV contrast",
      effect |-> "Lactic acidosis risk"],
     [drug1 |-> "allopurinol", drug2 |-> "azathioprine", severity |-> "severe",
      description |-> "Xanthine oxidase + thiopurine",
      effect |-> "Bone marrow suppression"],
     [drug1 |-> "diuretic", drug2 |-> "ace", severity |-> "moderate",
      description |-> "Diuretic + ACEi first dose",
      effect |-> "Excessive hypotension"],
     [drug1 |-> "diuretic", drug2 |-> "lithium", severity |-> "moderate",
      description |-> "Diuretic + Lithium",
      effect |-> "Lithium toxicity"],
     [drug1 |-> "diuretic", drug2 |-> "nsaid", severity |-> "moderate",
      description |-> "Diuretic + NSAID",
      effect |-> "Reduced diuretic efficacy, renal impairment"],
     [drug1 |-> "ccb", drug2 |-> "beta_blocker", severity |-> "mild",
      description |-> "CCB + Beta blocker",
      effect |-> "Excessive bradycardia"],
     [drug1 |-> "statin", drug2 |-> "fibrate", severity |-> "moderate",
      description |-> "Statin + Fibrate",
      effect |-> "Rhabdomyolysis risk -> acute kidney injury"],
     [drug1 |-> "aminoglycoside", drug2 |-> "diuretic", severity |-> "severe",
      description |-> "Aminoglycoside + Loop diuretic",
      effect |-> "Ototoxicity and nephrotoxicity"],
     [drug1 |-> "cyclosporine", drug2 |-> "nsaid", severity |-> "severe",
      description |-> "Cyclosporine + NSAID",
      effect |-> "Nephrotoxicity"],
     [drug1 |-> "ace", drug2 |-> "trimethoprim", severity |-> "moderate",
      description |-> "ACEi + Trimethoprim",
      effect |-> "Hyperkalemia"] >>

\* Object.entries keeps insertion order, so the lexicon is a sequence.
MEDICINE_CATEGORIES ==
  <<
     [cat |-> "ace", drugs |-> <<
        <<"e","n","a","l","a","p","r","i","l">>,
        <<"l","i","s","i","n","o","p","r","i","l">>,
        <<"r","a","m","i","p","r","i","l">>,
        <<"c","a","p","t","o","p","r","i","l">>,
        <<"p","e","r","i","n","d","o","p","r","i","l">>,
        <<"b","e","n","a","z","e","p","r","i","l">>,
        <<"f","o","s","i","n","o","p","r","i","l">>,
        <<"q","u","i","n","a","p","r","i","l">>,
        <<"t","r","a","n","d","o","l","a","p","r","i","l">> >>],
     [cat |-> "arb", drugs |-> <<
        <<"l","o","s","a","r","t","a","n">>,
        <<"v","a","l","s","a","r","t","a","n">>,
        <<"t","e","l","m","i","s","a","r","t","a","n">>,
        <<"i","r","b","e","s","a","r","t","a","n">>,
        <<"c","a","n","d","e","s","a","r","t","a","n">>,
        <<"o","l","m","e","s","a","r","t","a","n">>,
        <<"a","z","i","l","s","a","r","t","a","n">> >>],
     [cat |-> "ccb", drugs |-> <<
        <<"a","m","l","o","d","i","p","i","n","e">>,
        <<"n","i","f","e","d","i","p","i","n","e">>,
        <<"f","e","l","o","d","i","p","i","n","e">>,
        <<"d","i","l","t","i","a","z","e","m">>,
        <<"v","e","r","a","p","a","m","i","l">>,
        <<"n","i","c","a","r","d","i","p","i","n","e">> >>],
     [cat |-> "diuretic", drugs |-> <<
        <<"f","u","r","o","s","e","m","i","d","e">>,
        <<"h","y","d","r","o","c","h","l","o","r","o","t","h","i","a","z","i","d","e">>,
        <<"s","p","i","r","o","n","o","l","a","c","t","o","n","e">>,
        <<"b","u","m","e","t","a","n","i","d","e">>,
        <<"t","o","r","s","e","m","i","d","e">>,
        <<"a","m","i","l","o","r","i","d","e">>,
        <<"c","h","l","o","r","t","h","a","l","i","d","o","n","e">>,
        <<"i","n","d","a","p","a","m","i","d","e">> >>],
     [cat |-> "beta_blocker", drugs |-> <<
        <<"m","e","t","o","p","r","o","l","o","l">>,
        <<"a","t","e","n","o","l","o","l">>,
        <<"c","a","r","v","e","d","i","l","o","l">>,
        <<"b","i","s","o","p","r","o","l","o","l">>,
        <<"p","r","o","p","r","a","n","o","l","o","l">>,
        <<"n","e","b","i","v","o","l","o","l">> >>],
     [cat |-> "statin", drugs |-> <<
        <<"a","t","o","r","v","a","s","t","a","t","i","n">>,
        <<"r","o","s","u","v","a","s","t","a","t","i","n">>,
        <<"s","i","m","v","a","s","t","a","t","i","n">>,
        <<"p","r","a","v","a","s","t","a","t","i","n">>,
        <<"f","l","u","v","a","s","t","a","t","i","n">> >>],
     [cat |-> "xanthine_oxidase", drugs |-> <<
        <<"a","l","l","o","p","u","r","i","n","o","l">>,
        <<"f","e","b","u","x","o","s","t","a","t">> >>],
     [cat |-> "sglt2", drugs |-> <<
        <<"e","m","p","a","g","l","i","f","l","o","z","i","n">>,
        <<"d","a","p","a","g","l","i","f","l","o","z","i","n">>,
        <<"c","a","n","a","g","l","i","f","l","o","z","i","n">> >>],
     [cat |-> "dpp4", drugs |-> <<
        <<"s","i","t","a","g","l","i","p","t","i","n">>,
        <<"l","i","n","a","g","l","i","p","t","i","n">>,
        <<"s","a","x","a","g","l","i","p","t","i","n">>,
        <<"a","l","o","g","l","i","p","t","i","n">> >>],
     [cat |-> "glp1", drugs |-> <<
        <<"s","e","m","a","g","l","u","t","i","d","e">>,
        <<"l","i","r","a","g","l","u","t","i","d","e">>,
        <<"d","u","l","a","g","l","u","t","i","d","e">>,
        <<"e","x","e","n","a","t","i","d","e">> >>],
     [cat |-> "nsaid", drugs |-> <<
        <<"i","b","u","p","r","o","f","e","n">>,
        <<"n","a","p","r","o","x","e","n">>,
        <<"d","i","c","l","o","f","e","n","a","c">>,
        <<"c","e","l","e","c","o","x","i","b">>,
        <<"i","n","d","o","m","e","t","h","a","c","i","n">> >>],
     [cat |-> "anticoagulant", drugs |-> <<
        <<"w","a","r","f","a","r","i","n">>,
        <<"a","p","i","x","a","b","a","n">>,
        <<"r","i","v","a","r","o","x","a","b","a","n">>,
        <<"d","a","b","i","g","a","t","r","a","n">> >>],
     [cat |-> "phosphate_binder", drugs |-> <<
        <<"s","e","v","e","l","a","m","e","r">>,
        <<"l","a","n","t","h","a","n","u","m">>,
        <<"c","a","l","c","i","u","m"," ","a","c","e","t","a","t","e">>,
        <<"c","a","l","c","i","u","m"," ","c","a","r","b","o","n","a","t","e">> >>],
     [cat |-> "esa", drugs |-> <<
        <<"e","p","o","e","t","i","n">>,
        <<"d","a","r","b","e","p","o","e","t","i","n">> >>],
     [cat |-> "iron", drugs |-> <<
        <<"f","e","r","r","i","c"," ","c","a","r","b","o","x","y","m","a","l","t","o","s","e">>,
        <<"i","r","o","n"," ","s","u","c","r","o","s","e">>,
        <<"f","e","r","r","o","u","s"," ","s","u","l","f","a","t","e">> >>]
  >>

\* The class tag for "no class" (null in the source).
NoCategory == "null"

StrAce == <<"a","c","e">>
StrAcetate == <<"a","c","e","t","a","t","e">>
StrArb == <<"a","r","b">>
StrDiuretic == <<"d","i","u","r","e","t","i","c">>
StrMetformin == <<"m","e","t","f","o","r","m","i","n">>
StrSodiumBicarbonate ==
  <<"s","o","d","i","u","m"," ","b","i","c","a","r","b","o","n","a","t","e">>

\* The first lexicon class (in lexicon order) one of whose drug names occurs in lower.
LexiconMatches(lower) ==
  { c \in 1..Len(MEDICINE_CATEGORIES) :
      \E d \in 1..Len(MEDICINE_CATEGORIES[c].drugs) :
        includes(lower, MEDICINE_CATEGORIES[c].drugs[d]) }

getMedicineCategory(medicine) ==
  LET lower == toLowerCase(medicine)
      hits == LexiconMatches(lower)
  IN  IF hits # {}
      THEN MEDICINE_CATEGORIES[CHOOSE c \in hits : \A o \in hits : c <= o].cat
      ELSE IF includes(lower, StrAce) /\ ~includes(lower, StrAcetate) THEN "ace"
      ELSE IF includes(lower, StrArb) THEN "arb"
      ELSE IF includes(lower, StrDiuretic) THEN "diuretic"
      ELSE IF includes(lower, StrMetformin) THEN "sglt2"
      ELSE IF includes(lower, StrSodiumBicarbonate) THEN "alkalizer"
      ELSE NoCategory

-----------------------------------------------------------------------------
(* Medicine names used as inputs                                            *)

Enalapril10mg == <<"E","n","a","l","a","p","r","i","l"," ","1","0","m","g">>
Losartan50mg == <<"L","o","s","a","r","t","a","n"," ","5","0","m","g">>
Furosemide40mg == <<"F","u","r","o","s","e","m","i","d","e"," ","4","0","m","g">>
Ibuprofen400mg == <<"I","b","u","p","r","o","f","e","n"," ","4","0","0","m","g">>
Amlodipine5mg == <<"A","m","l","o","d","i","p","i","n","e"," ","5","m","g">>
Carvedilol12_5mg ==
  <<"C","a","r","v","e","d","i","l","o","l"," ","1","2",".","5","m","g">>
\* Free-text names no lexicon drug occurs in: the fallback words class them.
AceInhibitor == <<"A","C","E"," ","i","n","h","i","b","i","t","o","r">>
GenericARB == <<"G","e","n","e","r","i","c"," ","A","R","B">>
Allopurinol300mg ==
  <<"A","l","l","o","p","u","r","i","n","o","l"," ","3","0","0","m","g">>
\* A free-text name that no lexicon drug and no fallback word occurs in.
VitaminD3 == <<"V","i","t","a","m","i","n"," ","D","3">>
\* A fixed-dose combination: drugs of two classes occur in the one name.
LisinoprilHydrochlorothiazide ==
  <<"L","i","s","i","n","o","p","r","i","l","-">>
  \o <<"H","y","d","r","o","c","h","l","o","r","o","t","h","i","a","z","i","d","e">>

\* The alkalizer of the panel's COMMON_MEDICINES list.
SodiumBicarbonate650mg ==
  <<"S","o","d","i","u","m"," ","B","i","c","a","r","b","o","n","a","t","e">>
  \o <<" ","6","5","0","m","g">>

MedicineNames ==
  { Enalapril10mg, Losartan50mg, Furosemide40mg, Ibuprofen400mg,
    Amlodipine5mg, Carvedilol12_5mg, AceInhibitor, GenericARB,
    Allopurinol300mg, VitaminD3, LisinoprilHydrochlorothiazide,
    SodiumBicarbonate650mg }

\* getMedicineCategory on the names above, evaluated once.
CategoryTable == [m \in MedicineNames |-> getMedicineCategory(m)]

categoryOf(medicine) ==
  IF medicine \in MedicineNames THEN CategoryTable[medicine]
  ELSE getMedicineCategory(medicine)

-----------------------------------------------------------------------------
(* Drug interaction detection                                               *)

\* A detector that reads each table entry in its written direction only.
pairInteractionsOneWay(cat1, cat2, med1, med2) ==
  LET matches(interaction) ==
        cat1 = interaction.drug1 /\ cat2 = interaction.drug2
      hits == SelectSeq(DRUG_INTERACTIONS, matches)
  IN  [k \in 1..Len(hits) |->
         [hits[k] EXCEPT !.drug1 = med1, !.drug2 = med2]]

\* The table entries the pair of classes (cat1, cat2) matches, in table order,
\* carrying the two treatments' medicine names.
\* A detector that names the two medicines of an entry the wrong way round.
pairInteractionsNamesSwapped(cat1, cat2, med1, med2) ==
  LET hits == SelectSeq(DRUG_INTERACTIONS,
                LAMBDA interaction :
                  \/ (cat1 = interaction.drug1 /\ cat2 = interaction.drug2)
                  \/ (cat1 = interaction.drug2 /\ cat2 = interaction.drug1))
  IN  [k \in 1..Len(hits) |->
         [hits[k] EXCEPT !.drug1 = med2, !.drug2 = med1]]

pairInteractions(cat1, cat2, med1, med2) ==
  LET matches(interaction) ==
        \/ (cat1 = interaction.drug1 /\ cat2 = interaction.drug2)
        \/ (cat1 = interaction.drug2 /\ cat2 = interaction.drug1)
      hits == SelectSeq(DRUG_INTERACTIONS, matches)
  IN  [k \in 1..Len(hits) |->
         [hits[k] EXCEPT !.drug1 = med1, !.drug2 = med2]]

RECURSIVE detectFrom(_, _, _)
detectFrom(ts, i, j) ==
  IF i > Len(ts) THEN <<>>
  ELSE IF j > Len(ts) THEN detectFrom(ts, i + 1, i + 2)
  ELSE LET cat1 == categoryOf(ts[i].medicine)
           cat2 == categoryOf(ts[j].medicine)
       IN  (IF cat1 = NoCategory \/ cat2 = NoCategory THEN <<>>
            ELSE pairInteractions(cat1, cat2, ts[i].medicine, ts[j].medicine))
           \o detectFrom(ts, i, j + 1)

\* A detector whose inner loop starts one position late in the first row.
detectSkippingNeighbour(ts) == detectFrom(ts, 1, 3)

detectDrugInteractions(ts) == detectFrom(ts, 1, 2)

countSeverity(interactions, sev) ==
  Cardinality({k \in 1..Len(interactions) : interactions[k].severity = sev})

-----------------------------------------------------------------------------
(* Patients                                                                 *)

Stone50M ==
  [ age |-> Num(50), gender |-> "male", weight |-> Num(80),
    systolicBP |-> Num(135), diastolicBP |-> Num(88), glucose |-> Num(95),
    uricAcid |-> Tenths(80), hydrationLevel |-> Num(3),
    serumCreatinine |-> Tenths(10), bun |-> Num(15),
    serumCalcium |-> Tenths(95), serumPotassium |-> Tenths(42),
    serumSodium |-> Num(140), serumPhosphorus |-> Tenths(38),
    serumAlbumin |-> Tenths(40), hemoglobin |-> Tenths(145),
    hba1c |-> Tenths(55), cholesterol |-> Num(210), triglycerides |-> Num(120),
    urineProtein |-> Num(50), urineAlbumin |-> Num(15),
    parathyroidHormone |-> Num(45), vitaminD |-> Num(35),
    cReactiveProtein |-> Tenths(10),
    existingConditions |-> {}, currentMedicines |-> <<>>,
    proteinIntake |-> Num(90), saltIntake |-> Num(8), waterIntake |-> Tenths(20),
    exerciseLevel |-> Num(3), smokingStatus |-> "former",
    alcoholUnitsPerWeek |-> Num(0) ]

Ckd65M ==
  [ age |-> Num(65), gender |-> "male", weight |-> Num(85),
    systolicBP |-> Num(150), diastolicBP |-> Num(92), glucose |-> Num(140),
    uricAcid |-> Tenths(68), hydrationLevel |-> Num(5),
    serumCreatinine |-> Tenths(18), bun |-> Num(32),
    serumCalcium |-> Tenths(90), serumPotassium |-> Tenths(49),
    serumSodium |-> Num(139), serumPhosphorus |-> Tenths(48),
    serumAlbumin |-> Tenths(36), hemoglobin |-> Tenths(118),
    hba1c |-> Tenths(74), cholesterol |-> Num(230), triglycerides |-> Num(180),
    urineProtein |-> Num(600), urineAlbumin |-> Num(120),
    parathyroidHormone |-> Num(90), vitaminD |-> Num(22),
    cReactiveProtein |-> Tenths(40),
    existingConditions |-> {"diabetes", "hypertension", "ckd"},
    currentMedicines |-> <<>>,
    proteinIntake |-> Num(70), saltIntake |-> Num(6), waterIntake |-> Tenths(15),
    exerciseLevel |-> Num(2), smokingStatus |-> "never",
    alcoholUnitsPerWeek |-> Num(4) ]

Sick90M ==
  [ age |-> Num(90), gender |-> "male", weight |-> Num(60),
    systolicBP |-> Num(190), diastolicBP |-> Num(110), glucose |-> Num(300),
    uricAcid |-> Tenths(95), hydrationLevel |-> Num(2),
    serumCreatinine |-> Tenths(150), bun |-> Num(90),
    serumCalcium |-> Tenths(80), serumPotassium |-> Tenths(58),
    serumSodium |-> Num(132), serumPhosphorus |-> Tenths(70),
    serumAlbumin |-> Tenths(28), hemoglobin |-> Tenths(85),
    hba1c |-> Tenths(95), cholesterol |-> Num(280), triglycerides |-> Num(300),
    urineProtein |-> Num(1200), urineAlbumin |-> Num(900),
    parathyroidHormone |-> Num(300), vitaminD |-> Num(10),
    cReactiveProtein |-> Tenths(120),
    existingConditions |->
      {"diabetes", "hypertension", "ckd", "heart_disease", "uti", "gout",
       "kidney_stones"},
    currentMedicines |-> << Ibuprofen400mg >>,
    proteinIntake |-> Num(100), saltIntake |-> Num(12), waterIntake |-> Tenths(10),
    exerciseLevel |-> Num(0), smokingStatus |-> "current",
    alcoholUnitsPerWeek |-> Num(20) ]

Hyper18F ==
  [ age |-> Num(18), gender |-> "female", weight |-> Num(55),
    systolicBP |-> Num(110), diastolicBP |-> Num(70), glucose |-> Num(85),
    uricAcid |-> Tenths(40), hydrationLevel |-> Num(8),
    serumCreatinine |-> Tenths(2), bun |-> Num(8),
    serumCalcium |-> Tenths(94), serumPotassium |-> Tenths(40),
    serumSodium |-> Num(141), serumPhosphorus |-> Tenths(35),
    serumAlbumin |-> Tenths(45), hemoglobin |-> Tenths(130),
    hba1c |-> Tenths(50), cholesterol |-> Num(160), triglycerides |-> Num(90),
    urineProtein |-> Num(30), urineAlbumin |-> Num(10),
    parathyroidHormone |-> Num(40), vitaminD |-> Num(40),
    cReactiveProtein |-> Tenths(5),
    existingConditions |-> {}, currentMedicines |-> <<>>,
    proteinIntake |-> Num(50), saltIntake |-> Num(4), waterIntake |-> Tenths(25),
    exerciseLevel |-> Num(6), smokingStatus |-> "never",
    alcoholUnitsPerWeek |-> Num(0) ]

Patients == { Stone50M, Ckd65M, Sick90M, Hyper18F }

\* Male patients whose GFR falls on, or one tenth below, a staging threshold:
\* the first patient at another age and serum creatinine (entered to 0.01).
stagingPatient(age, creatinine) ==
  [Stone50M EXCEPT !.age = Num(age), !.serumCreatinine = Hundredths(creatinine)]

\* The first patient with a serum calcium above 10, for the calcium term of
\* the stone risk.
HighCalciumPatient == [Stone50M EXCEPT !.serumCalcium = Tenths(106)]

StagingPatients ==
  { stagingPatient(53, 100), stagingPatient(59, 97), stagingPatient(56, 138),
    stagingPatient(62, 134), stagingPatient(50, 181), stagingPatient(58, 174),
    stagingPatient(52, 251), stagingPatient(51, 253), stagingPatient(50, 452),
    stagingPatient(50, 454) }

-----------------------------------------------------------------------------
(* GFR and staging                                                          *)

\* 142 * minR^alpha * maxR^-1.2 * 0.9938^age (* 1.012 if female) for the
\* patients above, before the clamp and the rounding.
ckdEpi(age, gender, creatinine) ==
  CASE age = Num(50) /\ gender = "male" /\ creatinine = Tenths(10) -> 1100298
    [] age = Num(65) /\ gender = "male" /\ creatinine = Tenths(18) -> 495072
    [] age = Num(90) /\ gender = "male" /\ creatinine = Tenths(150) -> 33278
    [] age = Num(18) /\ gender = "female" /\ creatinine = Tenths(2) -> 2085222
    [] age = Num(53) /\ gender = "male" /\ creatinine = Hundredths(100) -> 1079959
    [] age = Num(59) /\ gender = "male" /\ creatinine = Hundredths(97) -> 1079133
    [] age = Num(56) /\ gender = "male" /\ creatinine = Hundredths(138) -> 720194
    [] age = Num(62) /\ gender = "male" /\ creatinine = Hundredths(134) -> 718741
    [] age = Num(50) /\ gender = "male" /\ creatinine = Hundredths(181) -> 539878
    [] age = Num(58) /\ gender = "male" /\ creatinine = Hundredths(174) -> 538571
    [] age = Num(52) /\ gender = "male" /\ creatinine = Hundredths(251) -> 360164
    [] age = Num(51) /\ gender = "male" /\ creatinine = Hundredths(253) -> 358975
    [] age = Num(50) /\ gender = "male" /\ creatinine = Hundredths(452) -> 180030
    [] age = Num(50) /\ gender = "male" /\ creatinine = Hundredths(454) -> 179078

\* CKD-EPI without the clamp of line 207.
calculateGFRUnclamped(age, gender, creatinine, weight) ==
  round1(ckdEpi(age, gender, creatinine))

calculateGFR(age, gender, creatinine, weight) ==
  round1(Min2(Max2(ckdEpi(age, gender, creatinine), Num(3)), Num(160)))

\* A staging that puts a GFR equal to a threshold into the category below it.
getGFRCategoryAboveOnly(gfr) ==
  IF gfr > Num(90) THEN "G1 - Normal or High"
  ELSE IF gfr > Num(60) THEN "G2 - Mildly decreased"
  ELSE IF gfr > Num(45) THEN "G3a - Mild-moderate decrease"
  ELSE IF gfr > Num(30) THEN "G3b - Moderate-severe decrease"
  ELSE IF gfr > Num(15) THEN "G4 - Severely decreased"
  ELSE "G5 - Kidney failure"

getGFRCategory(gfr) ==
  IF gfr >= Num(90) THEN "G1 - Normal or High"
  ELSE IF gfr >= Num(60) THEN "G2 - Mildly decreased"
  ELSE IF gfr >= Num(45) THEN "G3a - Mild-moderate decrease"
  ELSE IF gfr >= Num(30) THEN "G3b - Moderate-severe decrease"
  ELSE IF gfr >= Num(15) THEN "G4 - Severely decreased"
  ELSE "G5 - Kidney failure"

getCKDStage(gfr) ==
  IF gfr >= Num(90) THEN 1
  ELSE IF gfr >= Num(60) THEN 2
  ELSE IF gfr >= Num(45) THEN 3
  ELSE IF gfr >= Num(30) THEN 3
  ELSE IF gfr >= Num(15) THEN 4
  ELSE 5

getAlbuminuriaCategory(albumin) ==
  IF albumin < Num(30) THEN "A1 - Normal"
  ELSE IF albumin < Num(300) THEN "A2 - Moderately increased"
  ELSE "A3 - Severely increased"

-----------------------------------------------------------------------------
(* Baseline metrics                                                         *)

\* Math.log(urineAlbumin / 30) * 10 for the urine-albumin values above 30
\* that the patients carry.
logAlbuminTimes10(urineAlbumin) ==
  CASE urineAlbumin = Num(120) -> 166355
    [] urineAlbumin = Num(900) -> 408144

\* if (x > t) acc += (x - t) * k  adds  Excess(x, t) * k;
\* if (x < t) acc += (t - x) * k  adds  Deficit(x, t) * k.
Excess(x, t) == IF x > t THEN x - t ELSE 0
Deficit(x, t) == IF x < t THEN t - x ELSE 0
When(cond, v) == IF cond THEN v ELSE 0

NSAID_NAMES ==
  MEDICINE_CATEGORIES[CHOOSE c \in 1..Len(MEDICINE_CATEGORIES) :
                        MEDICINE_CATEGORIES[c].cat = "nsaid"].drugs

hasNSAIDIn(currentMedicines) ==
  \E m \in 1..Len(currentMedicines) :
    \E n \in 1..Len(NSAID_NAMES) :
      includes(toLowerCase(currentMedicines[m]), NSAID_NAMES[n])

\* A stone risk that leaves the hydration term out.
stoneRiskWithoutHydration(p) ==
  clamp(Num(8)
        + Excess(p.uricAcid, Num(6)) * 12
        + Excess(p.serumCalcium, Num(10)) * 15
        + Excess(p.serumPhosphorus, Tenths(45)) * 8
        + Deficit(p.waterIntake, Num(2)) * 10
        + When("kidney_stones" \in p.existingConditions, Num(20))
        + When("gout" \in p.existingConditions, Num(10))
        + When(p.urineProtein > Num(150), Num(5)),
        0, Num(100))

stoneRiskOf(p) ==
  clamp(Num(8)
        + Excess(p.uricAcid, Num(6)) * 12
        + Excess(p.serumCalcium, Num(10)) * 15
        + Excess(p.serumPhosphorus, Tenths(45)) * 8
        + Deficit(p.hydrationLevel, Num(5)) * 8
        + Deficit(p.waterIntake, Num(2)) * 10
        + When("kidney_stones" \in p.existingConditions, Num(20))
        + When("gout" \in p.existingConditions, Num(10))
        + When(p.urineProtein > Num(150), Num(5)),
        0, Num(100))

stressIndexOf(p) ==
  clamp(Num(15)
        + Mul(Excess(p.systolicBP, Num(130)), 1, 2)
        + Mul(Excess(p.diastolicBP, Num(85)), 2, 5)
        + Mul(Excess(p.glucose, Num(100)), 3, 10)
        + Excess(p.hba1c, Tenths(65)) * 5
        + When("diabetes" \in p.existingConditions, Num(15))
        + When("hypertension" \in p.existingConditions, Num(12))
        + Excess(p.saltIntake, Num(5)) * 4
        + Excess(p.cReactiveProtein, Num(3)) * 2
        + When(p.smokingStatus = "current", Num(10))
        + When(p.smokingStatus = "former", Num(3))
        + Mul(Excess(p.alcoholUnitsPerWeek, Num(14)), 1, 2)
        + Mul(Excess(p.proteinIntake, Num(80)), 1, 5)
        + Mul(Excess(p.cholesterol, Num(200)), 1, 20),
        0, Num(100))

ckdProgressionOf(p, gfr) ==
  clamp(Num(10)
        + Mul(Deficit(gfr, Num(60)), 4, 5)
        + When(p.urineAlbumin > Num(30), logAlbuminTimes10(p.urineAlbumin))
        + When(p.urineProtein > Num(500), Num(15))
        + When("diabetes" \in p.existingConditions, Num(12))
        + When("hypertension" \in p.existingConditions, Num(8))
        + When("ckd" \in p.existingConditions, Num(15))
        + Excess(p.hba1c, Num(7)) * 4
        + When(p.systolicBP > Num(140), Num(8)),
        0, Num(100))

cvRiskOf(p, gfr) ==
  clamp(Num(8)
        + Mul(Excess(p.systolicBP, Num(140)), 3, 5)
        + Mul(Excess(p.cholesterol, Num(200)), 1, 10)
        + Mul(Excess(p.triglycerides, Num(150)), 1, 20)
        + Mul(Deficit(gfr, Num(60)), 1, 2)
        + When("heart_disease" \in p.existingConditions, Num(20))
        + When("diabetes" \in p.existingConditions, Num(10))
        + When(p.smokingStatus = "current", Num(12))
        + Mul(Excess(p.age, Num(55)), 1, 2),
        0, Num(100))

akiriskOf(p, gfr) ==
  clamp(Num(5)
        + When(gfr < Num(45), Num(15))
        + When(p.age > Num(65), Num(8))
        + When("diabetes" \in p.existingConditions, Num(8))
        + When("heart_disease" \in p.existingConditions, Num(10))
        + When(p.hydrationLevel < Num(3), Num(15))
        + Excess(p.serumCreatinine, Tenths(15)) * 10
        + When(hasNSAIDIn(p.currentMedicines), Num(12)),
        0, Num(100))

infectionRiskOf(p, gfr) ==
  clamp(Num(5)
        + When(gfr < Num(30), Num(15))
        + When("diabetes" \in p.existingConditions, Num(10))
        + When("uti" \in p.existingConditions, Num(15))
        + When(p.age > Num(70), Num(8))
        + Deficit(p.serumAlbumin, Tenths(35)) * 10,
        0, Num(100))

efficiencyOf(gfr) == Max2(Min2(Mul(gfr, 100, 120), Num(100)), Num(5))

\* Not clamped where it is computed (lines 326-332); the return clamps it.
electrolyteBalanceOf(p) ==
  Num(90)
  - (IF p.serumPotassium < Tenths(35) \/ p.serumPotassium > Tenths(51)
     THEN Num(25)
     ELSE When(p.serumPotassium < Tenths(38) \/ p.serumPotassium > Tenths(48),
               Num(8)))
  - (IF p.serumSodium < Num(136) \/ p.serumSodium > Num(146)
     THEN Num(20)
     ELSE When(p.serumSodium < Num(138) \/ p.serumSodium > Num(144), Num(8)))
  - When(p.serumCalcium < Tenths(88) \/ p.serumCalcium > Tenths(106), Num(15))
  - When(p.serumPhosphorus < Tenths(25) \/ p.serumPhosphorus > Tenths(45),
         Num(12))

mineralBoneScoreOf(p) ==
  clamp(Num(85)
        - When(p.parathyroidHormone > Num(65),
               Min2(Mul(p.parathyroidHormone - Num(65), 3, 10), Num(30)))
        - Mul(Deficit(p.vitaminD, Num(30)), 4, 5)
        - When(p.serumCalcium < Tenths(85) \/ p.serumCalcium > Tenths(105),
               Num(15))
        - Excess(p.serumPhosphorus, Tenths(45)) * 8,
        0, Num(100))

anemiaScoreOf(p, gfr) ==
  LET hbLow == IF p.gender = "female" THEN Num(12) ELSE Num(13)
  IN  clamp(Num(90)
            - Deficit(p.hemoglobin, hbLow) * 15
            - When(gfr < Num(45), Num(10))
            - When(p.serumAlbumin < Tenths(35), Num(8)),
            0, Num(100))

inflammationScoreOf(p) ==
  clamp(Num(90)
        - When(p.cReactiveProtein > Num(1),
               Min2(p.cReactiveProtein * 5, Num(40)))
        - When(p.serumAlbumin < Tenths(35), Num(10)),
        0, Num(100))

kidneyPerfusionIndexOf(p, gfr) ==
  clamp(Num(85)
        - Mul(Excess(p.systolicBP, Num(140)), 3, 10)
        - Mul(Deficit(p.systolicBP, Num(90)), 1, 2)
        - When("heart_disease" \in p.existingConditions, Num(12))
        - Mul(Deficit(gfr, Num(60)), 3, 10),
        0, Num(100))

interstitialHealthOf(p) ==
  clamp(Num(85)
        - When(p.urineProtein > Num(150),
               Min2(Mul(p.urineProtein, 1, 50), Num(25)))
        - When(p.cReactiveProtein > Num(3), Num(10))
        - When("uti" \in p.existingConditions, Num(10)),
        0, Num(100))

vascularHealthOf(p) ==
  clamp(Num(85)
        - Mul(Excess(p.systolicBP, Num(130)), 2, 5)
        - Mul(Excess(p.cholesterol, Num(200)), 2, 25)
        - When("diabetes" \in p.existingConditions, Num(10))
        - When(p.smokingStatus = "current", Num(12)),
        0, Num(100))

calculateBaselineMetrics(p) ==
  LET gfr == calculateGFR(p.age, p.gender, p.serumCreatinine, p.weight)
      stoneRisk == stoneRiskOf(p)
      stressIndex == stressIndexOf(p)
      ckdProgression == ckdProgressionOf(p, gfr)
      cvRisk == cvRiskOf(p, gfr)
      akirisk == akiriskOf(p, gfr)
      infectionRisk == infectionRiskOf(p, gfr)
      efficiency == efficiencyOf(gfr)
      electrolyteBalance == electrolyteBalanceOf(p)
      mineralBoneScore == mineralBoneScoreOf(p)
      anemiaScore == anemiaScoreOf(p, gfr)
      inflammationScore == inflammationScoreOf(p)
      kidneyPerfusionIndex == kidneyPerfusionIndexOf(p, gfr)
      nephronHealth ==
        clamp(MathRound(Mul(efficiency, 7, 10)
                        + Mul(Num(100) - stressIndex, 3, 10)), 0, Num(100))
      interstitialHealth == interstitialHealthOf(p)
      vascularHealth == vascularHealthOf(p)
      overallHealthScore ==
        MathRound(Mul(efficiency, 1, 4)
                  + Mul(Num(100) - stressIndex, 3, 20)
                  + Mul(Num(100) - stoneRisk, 1, 20)
                  + Mul(Num(100) - ckdProgression, 3, 20)
                  + Mul(electrolyteBalance, 1, 10)
                  + Mul(nephronHealth, 1, 10)
                  + Mul(vascularHealth, 1, 10)
                  + Mul(mineralBoneScore, 1, 20)
                  + Mul(anemiaScore, 1, 20))
  IN  [ gfr |-> gfr,
        gfrCategory |-> getGFRCategory(gfr),
        ckdStage |-> getCKDStage(gfr),
        creatinine |-> p.serumCreatinine,
        uricAcid |-> p.uricAcid,
        bun |-> p.bun,
        bunCreatinineRatio |->
          round1(divide(p.bun, p.serumCreatinine)),
        stoneRisk |-> MathRound(stoneRisk),
        stressIndex |-> MathRound(stressIndex),
        ckdProgressionRisk |-> MathRound(ckdProgression),
        cardiovascularRisk |-> MathRound(cvRisk),
        akirisk |-> MathRound(akirisk),
        infectionRisk |-> MathRound(infectionRisk),
        efficiency |-> MathRound(efficiency),
        kidneyAge |->
          MathRound(p.age + Mul(Num(100) - efficiency, 2, 5)
                    + Mul(stressIndex, 1, 10)),
        filtrationRate |-> MathRound(Mul(gfr, 36, 25)),
        tubularReabsorption |-> MathRound(Num(99) - Mul(stressIndex, 1, 20)),
        electrolyteBalance |-> MathRound(clamp(electrolyteBalance, 0, Num(100))),
        acidBaseBalance |->
          MathRound(clamp(Num(85) - Mul(stressIndex, 3, 20), 0, Num(100))),
        mineralBoneScore |-> MathRound(mineralBoneScore),
        anemiaScore |-> MathRound(anemiaScore),
        inflammationScore |-> MathRound(inflammationScore),
        proteinuriaLevel |-> p.urineProtein,
        albuminuriaCategory |-> getAlbuminuriaCategory(p.urineAlbumin),
        kidneyPerfusionIndex |-> MathRound(kidneyPerfusionIndex),
        nephronHealth |-> nephronHealth,
        interstitialHealth |-> MathRound(interstitialHealth),
        vascularHealth |-> MathRound(vascularHealth),
        overallHealthScore |-> clamp(overallHealthScore, 0, Num(100)),
        riskHeatmap |->
          [ glomerular |->
              clamp(Num(100) - Mul(Num(100) - efficiency, 6, 5), 0, Num(100)),
            tubular |-> clamp(Num(100) - Mul(stressIndex, 4, 5), 0, Num(100)),
            vascular |-> vascularHealth,
            interstitial |-> interstitialHealth,
            collecting |-> clamp(Num(90) - Mul(stoneRisk, 3, 10), 0, Num(100)),
            cortex |->
              clamp(Mul(nephronHealth, 9, 10)
                    + Mul(kidneyPerfusionIndex, 1, 10), 0, Num(100)),
            medulla |->
              clamp(Num(85) - Mul(stressIndex, 3, 10) - Mul(stoneRisk, 1, 5),
                    0, Num(100)) ] ]

-----------------------------------------------------------------------------
(* Treatment simulation                                                     *)

ZeroDeltas ==
  [ gfrDelta |-> 0, creatinineDelta |-> 0, uricAcidDelta |-> 0,
    stressReduction |-> 0, stoneRiskReduction |-> 0, ckdProgReduction |-> 0,
    cvRiskReduction |-> 0, inflammationReduction |-> 0,
    anemiaImprovement |-> 0, mineralBoneImprovement |-> 0 ]

\* A dose multiplier that keeps growing with the tablets.
doseMultiplierUncapped(tablets) == tablets

\* Line 488.
doseMultiplierOf(tablets) == Min2(tablets, 3)

\* The switch on the class cat of the treatment t (lines 490-553).
switchOnCategory(acc, t, cat) ==
  LET doseMultiplier == doseMultiplierOf(t.tablets)
      lower == toLowerCase(t.medicine)
  IN  CASE cat = "ace" ->
             [acc EXCEPT !.gfrDelta = @ + Mul(Num(5) * doseMultiplier, 7, 10),
                         !.stressReduction = @ + Num(10),
                         !.ckdProgReduction = @ + Num(8),
                         !.cvRiskReduction = @ + Num(6)]
        [] cat = "arb" ->
             [acc EXCEPT !.gfrDelta = @ + Mul(Num(4) * doseMultiplier, 7, 10),
                         !.stressReduction = @ + Num(9),
                         !.ckdProgReduction = @ + Num(7),
                         !.cvRiskReduction = @ + Num(5)]
        [] cat = "sglt2" ->
             [acc EXCEPT !.gfrDelta = @ + Num(6),
                         !.stressReduction = @ + Num(8),
                         !.ckdProgReduction = @ + Num(15),
                         !.cvRiskReduction = @ + Num(10),
                         !.stoneRiskReduction = @ + Num(3)]
        [] cat = "xanthine_oxidase" ->
             [acc EXCEPT !.uricAcidDelta =
                           @ - Mul(Tenths(25) * doseMultiplier, 6, 10),
                         !.stoneRiskReduction = @ + Num(15),
                         !.ckdProgReduction = @ + Num(3)]
        [] cat = "ccb" ->
             [acc EXCEPT !.stressReduction = @ + Num(8),
                         !.cvRiskReduction = @ + Num(5)]
        [] cat = "diuretic" ->
             [acc EXCEPT !.stressReduction = @ + Num(6),
                         !.gfrDelta = @ + Num(2),
                         !.stoneRiskReduction = @ + Num(5)]
        [] cat = "beta_blocker" ->
             [acc EXCEPT !.stressReduction = @ + Num(5),
                         !.cvRiskReduction = @ + Num(8)]
        [] cat = "statin" ->
             [acc EXCEPT !.cvRiskReduction = @ + Num(12),
                         !.inflammationReduction = @ + Num(5)]
        [] cat = "phosphate_binder" ->
             [acc EXCEPT !.mineralBoneImprovement = @ + Num(12)]
        [] cat = "esa" ->
             [acc EXCEPT !.anemiaImprovement = @ + Num(20)]
        [] cat = "iron" ->
             [acc EXCEPT !.anemiaImprovement = @ + Num(10)]
        [] cat = "glp1" ->
             [acc EXCEPT !.stressReduction = @ + Num(5),
                         !.ckdProgReduction = @ + Num(8),
                         !.cvRiskReduction = @ + Num(8)]
        [] OTHER ->
             [acc EXCEPT
                !.gfrDelta =
                  @ + When(includes(lower, StrSodiumBicarbonate), Num(3)),
                !.ckdProgReduction =
                  @ + When(includes(lower, StrSodiumBicarbonate), Num(4)),
                !.stressReduction =
                  @ + When(includes(lower, StrMetformin), Num(5))]

\* A loop body that counts a little stress relief for a medicine of no class.
drugEffectCountingUnknown(acc, t) ==
  LET effect == switchOnCategory(acc, t, categoryOf(t.medicine))
  IN  IF categoryOf(t.medicine) = NoCategory
      THEN [effect EXCEPT !.stressReduction = @ + Num(1)]
      ELSE effect

\* One pass of the loop over the treatments (lines 486-555).
drugEffect(acc, t) == switchOnCategory(acc, t, categoryOf(t.medicine))

RECURSIVE drugEffects(_, _, _)
drugEffects(acc, ts, i) ==
  IF i > Len(ts) THEN acc ELSE drugEffects(drugEffect(acc, ts[i]), ts, i + 1)

\* Lifestyle effects that also count a change in the harmful direction.
lifestyleEffectsBothWays(acc, p, adj) ==
  LET hydrationDiff == adj.hydration - p.hydrationLevel
      saltReduction == p.saltIntake - adj.saltIntake
      exerciseDiff == adj.exerciseLevel - p.exerciseLevel
  IN  [acc EXCEPT
         !.stoneRiskReduction = @ + hydrationDiff * 5,
         !.gfrDelta = @ + Mul(hydrationDiff, 1, 2) + Mul(saltReduction, 1, 2),
         !.stressReduction = @ + saltReduction * 3 + Mul(exerciseDiff, 3, 2),
         !.cvRiskReduction = @ + Mul(saltReduction, 3, 2) + exerciseDiff * 2]

\* Lines 557-588.
lifestyleEffects(acc, p, adj) ==
  LET hydrationDiff == adj.hydration - p.hydrationLevel
      waterDiff == adj.waterIntake - p.waterIntake
      saltReduction == p.saltIntake - adj.saltIntake
      proteinReduction == p.proteinIntake - adj.proteinIntake
      exerciseDiff == adj.exerciseLevel - p.exerciseLevel
  IN  [acc EXCEPT
         !.stoneRiskReduction =
           @ + When(hydrationDiff > 0, hydrationDiff * 5)
             + When(waterDiff > 0, waterDiff * 4),
         !.gfrDelta =
           @ + When(hydrationDiff > 0, Mul(hydrationDiff, 1, 2))
             + When(saltReduction > 0, Mul(saltReduction, 1, 2)),
         !.stressReduction =
           @ + When(saltReduction > 0, saltReduction * 3)
             + When(proteinReduction > 0, Mul(proteinReduction, 1, 10))
             + When(exerciseDiff > 0, Mul(exerciseDiff, 3, 2)),
         !.cvRiskReduction =
           @ + When(saltReduction > 0, Mul(saltReduction, 3, 2))
             + When(exerciseDiff > 0, exerciseDiff * 2),
         !.creatinineDelta =
           @ - When(proteinReduction > 0, Mul(proteinReduction, 1, 500)),
         !.ckdProgReduction =
           @ + When(proteinReduction > 0, Mul(proteinReduction, 3, 20)),
         !.inflammationReduction =
           @ + When(exerciseDiff > 0, exerciseDiff)]

\* Penalties that charge a mild interaction like a moderate one.
interactionPenaltiesChargingMild(acc, interactions) ==
  LET severe == countSeverity(interactions, "severe")
      other == Len(interactions) - severe
  IN  [acc EXCEPT
         !.gfrDelta = @ - Num(3) * severe - Num(1) * other,
         !.stressReduction = @ - Num(5) * severe - Num(2) * other]

\* Lines 590-600.
interactionPenalties(acc, interactions) ==
  LET severe == countSeverity(interactions, "severe")
      moderate == countSeverity(interactions, "moderate")
  IN  [acc EXCEPT
         !.gfrDelta = @ - Num(3) * severe - Num(1) * moderate,
         !.stressReduction = @ - Num(5) * severe - Num(2) * moderate]

simulationDeltas(p, ts, adj) ==
  interactionPenalties(
    lifestyleEffects(drugEffects(ZeroDeltas, ts, 1), p, adj),
    detectDrugInteractions(ts))

\* Lines 602-661: the returned snapshot, from the accumulated deltas d.
newMetrics(b, p, d) ==
  LET newGfr == clamp(b.gfr + d.gfrDelta, Num(5), Num(150))
      newCreatinine == Max2(b.creatinine + d.creatinineDelta, Tenths(3))
      newUricAcid == Max2(b.uricAcid + d.uricAcidDelta, Num(1))
      newStress == Max2(b.stressIndex - d.stressReduction, 0)
      newStoneRisk == Max2(b.stoneRisk - d.stoneRiskReduction, 0)
      newEfficiency == clamp(Mul(newGfr, 100, 120), Num(5), Num(100))
      newCkdProg == Max2(b.ckdProgressionRisk - d.ckdProgReduction, 0)
      newCvRisk == Max2(b.cardiovascularRisk - d.cvRiskReduction, 0)
      newBun == Mul(b.bun, newCreatinine \div (Unit \div 100),
                    b.creatinine \div (Unit \div 100))
      nephron == Mul(newEfficiency, 7, 10) + Mul(Num(100) - newStress, 3, 10)
      vascular ==
        clamp(b.vascularHealth + Mul(d.cvRiskReduction, 3, 10), 0, Num(100))
  IN  [ gfr |-> round1(newGfr),
        gfrCategory |-> getGFRCategory(newGfr),
        ckdStage |-> getCKDStage(newGfr),
        creatinine |-> round2(newCreatinine),
        uricAcid |-> round1(newUricAcid),
        bun |-> round1(newBun),
        bunCreatinineRatio |-> round1(divide(newBun, newCreatinine)),
        stoneRisk |-> MathRound(newStoneRisk),
        stressIndex |-> MathRound(newStress),
        ckdProgressionRisk |-> MathRound(newCkdProg),
        cardiovascularRisk |-> MathRound(newCvRisk),
        akirisk |->
          MathRound(Max2(b.akirisk - Mul(d.stressReduction, 3, 10), 0)),
        infectionRisk |->
          MathRound(Max2(b.infectionRisk - Mul(d.stressReduction, 1, 10), 0)),
        efficiency |-> MathRound(newEfficiency),
        kidneyAge |->
          MathRound(p.age + Mul(Num(100) - newEfficiency, 2, 5)
                    + Mul(newStress, 1, 10)),
        filtrationRate |-> MathRound(Mul(newGfr, 36, 25)),
        tubularReabsorption |-> MathRound(Num(99) - Mul(newStress, 1, 20)),
        electrolyteBalance |->
          clamp(b.electrolyteBalance + MathRound(Mul(d.stressReduction, 3, 10)),
                0, Num(100)),
        acidBaseBalance |->
          clamp(b.acidBaseBalance + MathRound(Mul(d.stressReduction, 1, 5)),
                0, Num(100)),
        mineralBoneScore |->
          clamp(b.mineralBoneScore + MathRound(d.mineralBoneImprovement),
                0, Num(100)),
        anemiaScore |->
          clamp(b.anemiaScore + MathRound(d.anemiaImprovement), 0, Num(100)),
        inflammationScore |->
          clamp(b.inflammationScore + MathRound(d.inflammationReduction),
                0, Num(100)),
        proteinuriaLevel |->
          Max2(b.proteinuriaLevel
               - (b.proteinuriaLevel \div 400)
                 * (d.ckdProgReduction \div (Unit \div 4)), 0),
        albuminuriaCategory |-> b.albuminuriaCategory,
        kidneyPerfusionIndex |->
          clamp(b.kidneyPerfusionIndex + MathRound(Mul(d.stressReduction, 1, 5)),
                0, Num(100)),
        nephronHealth |-> clamp(MathRound(nephron), 0, Num(100)),
        interstitialHealth |->
          clamp(b.interstitialHealth + MathRound(Mul(d.stressReduction, 1, 5)),
                0, Num(100)),
        vascularHealth |->
          clamp(b.vascularHealth + MathRound(Mul(d.cvRiskReduction, 3, 10)),
                0, Num(100)),
        overallHealthScore |->
          clamp(MathRound(
                  Mul(newEfficiency, 1, 4)
                  + Mul(Num(100) - newStress, 3, 20)
                  + Mul(Num(100) - newStoneRisk, 1, 20)
                  + Mul(Num(100) - newCkdProg, 3, 20)
                  + Mul(clamp(b.electrolyteBalance
                              + Mul(d.stressReduction, 3, 10), 0, Num(100)),
                        1, 10)
                  + Mul(clamp(nephron, 0, Num(100)), 1, 10)
                  + Mul(vascular, 1, 10)
                  + Mul(clamp(b.mineralBoneScore + d.mineralBoneImprovement,
                              0, Num(100)), 1, 20)
                  + Mul(clamp(b.anemiaScore + d.anemiaImprovement,
                              0, Num(100)), 1, 20)),
                0, Num(100)),
        riskHeatmap |->
          [ glomerular |->
              clamp(Num(100) - Mul(Num(100) - newEfficiency, 6, 5), 0, Num(100)),
            tubular |-> clamp(Num(100) - Mul(newStress, 4, 5), 0, Num(100)),
            vascular |-> vascular,
            interstitial |->
              clamp(b.interstitialHealth + Mul(d.stressReduction, 1, 5),
                    0, Num(100)),
            collecting |->
              clamp(Num(90) - Mul(newStoneRisk, 3, 10), 0, Num(100)),
            cortex |->
              clamp(Mul(nephron, 9, 10)
                    + Mul(clamp(b.kidneyPerfusionIndex
                                + Mul(d.stressReduction, 1, 5), 0, Num(100)),
                          1, 10), 0, Num(100)),
            medulla |->
              clamp(Num(85) - Mul(newStress, 3, 10) - Mul(newStoneRisk, 1, 5),
                    0, Num(100)) ] ]

simulateTreatment(b, p, ts, adj) ==
  newMetrics(b, p, simulationDeltas(p, ts, adj))

-----------------------------------------------------------------------------
(* Time projection                                                          *)

\* 1 - Math.exp(-(daysAhead / 30) / 6) for the horizons used: zero and the
\* dashboard's TIME_PERIODS.
Horizons == {0, 7, 30, 90, 180, 365}

improvementFactorOf(days) ==
  CASE days = 0 -> 0
    [] days = 7 -> 458
    [] days = 30 -> 1842
    [] days = 90 -> 4722
    [] days = 180 -> 7585
    [] days = 365 -> 10420

\* A projection that lets the cortex region improve with the other three.
projectedHeatmapWithCortex(heatmap, improvementFactor) ==
  [heatmap EXCEPT
     !.glomerular = clamp(@ + improvementFactor * 3, 0, Num(100)),
     !.tubular = clamp(@ + improvementFactor * 3, 0, Num(100)),
     !.vascular = clamp(@ + improvementFactor * 2, 0, Num(100)),
     !.cortex = clamp(@ + improvementFactor * 2, 0, Num(100))]

\* Lines 690-695: the heatmap is spread and three regions are overwritten.
projectedHeatmap(heatmap, improvementFactor) ==
  [heatmap EXCEPT
     !.glomerular = clamp(@ + improvementFactor * 3, 0, Num(100)),
     !.tubular = clamp(@ + improvementFactor * 3, 0, Num(100)),
     !.vascular = clamp(@ + improvementFactor * 2, 0, Num(100))]

predictFutureMetrics(m, days) ==
  LET improvementFactor == improvementFactorOf(days)
      maxGfrImprovement == Mul(m.efficiency - Num(40), 2, 25)
      stressDampening == improvementFactor * 5
      riskDampening == improvementFactor * 8
      newGfr == m.gfr + Mul(maxGfrImprovement * improvementFactor, 2, Unit)
      newEfficiency ==
        clamp(m.efficiency + Mul(maxGfrImprovement, improvementFactor, Unit),
              Num(5), Num(100))
      newStress == Max2(m.stressIndex - stressDampening, 0)
      newStoneRisk == Max2(m.stoneRisk - riskDampening, 0)
      newCkdProg == Max2(m.ckdProgressionRisk - Mul(riskDampening, 3, 5), 0)
      newCvRisk == Max2(m.cardiovascularRisk - Mul(riskDampening, 2, 5), 0)
  IN  [m EXCEPT
         !.gfr = round1(newGfr),
         !.gfrCategory = getGFRCategory(newGfr),
         !.ckdStage = getCKDStage(newGfr),
         !.efficiency = MathRound(newEfficiency),
         !.stressIndex = MathRound(newStress),
         !.stoneRisk = MathRound(newStoneRisk),
         !.ckdProgressionRisk = MathRound(newCkdProg),
         !.cardiovascularRisk = MathRound(newCvRisk),
         !.overallHealthScore =
           clamp(MathRound(m.overallHealthScore + improvementFactor * 5),
                 0, Num(100)),
         !.riskHeatmap = projectedHeatmap(m.riskHeatmap, improvementFactor)]

-----------------------------------------------------------------------------
(* Treatment ranking                                                        *)

\* Lines 713-736: singles, then pairs, then triples, in index order.
RECURSIVE pairsFrom(_, _, _)
pairsFrom(ts, i, j) ==
  IF i > Len(ts) THEN <<>>
  ELSE IF j > Len(ts) THEN pairsFrom(ts, i + 1, i + 2)
  ELSE << <<ts[i], ts[j]>> >> \o pairsFrom(ts, i, j + 1)

RECURSIVE triplesFrom(_, _, _, _)
triplesFrom(ts, i, j, k) ==
  IF i > Len(ts) THEN <<>>
  ELSE IF j > Len(ts) THEN triplesFrom(ts, i + 1, i + 2, i + 3)
  ELSE IF k > Len(ts) THEN triplesFrom(ts, i, j + 1, j + 2)
  ELSE << <<ts[i], ts[j], ts[k]>> >> \o triplesFrom(ts, i, j, k + 1)

\* A generator that stops after the pairs.
combinationsWithoutTriples(ts) ==
  [i \in 1..Len(ts) |-> <<ts[i]>>]
  \o (IF Len(ts) >= 2 THEN pairsFrom(ts, 1, 2) ELSE <<>>)

combinations(ts) ==
  [i \in 1..Len(ts) |-> <<ts[i]>>]
  \o (IF Len(ts) >= 2 THEN pairsFrom(ts, 1, 2) ELSE <<>>)
  \o (IF Len(ts) >= 3 THEN triplesFrom(ts, 1, 2, 3) ELSE <<>>)

defaultAdj(p) ==
  [ hydration |-> p.hydrationLevel, proteinIntake |-> p.proteinIntake,
    saltIntake |-> p.saltIntake, waterIntake |-> p.waterIntake,
    exerciseLevel |-> p.exerciseLevel ]

\* A penalty that also charges 10 for each mild interaction.
sideEffectRiskChargingMild(interactions) ==
  Num(30) * countSeverity(interactions, "severe")
  + Num(10) * (countSeverity(interactions, "moderate")
               + countSeverity(interactions, "mild"))

\* Lines 749-756: severeCount * 30 + modCount * 10.
sideEffectRiskOf(interactions) ==
  LET severeCount == countSeverity(interactions, "severe")
      modCount == countSeverity(interactions, "moderate")
  IN  Num(30) * severeCount + Num(10) * modCount

\* Lines 746-776, without the reasoning text.
rankCombination(b, p, combo) ==
  LET result == simulateTreatment(b, p, combo, defaultAdj(p))
      interactions == detectDrugInteractions(combo)
      gfrImprovement == result.gfr - b.gfr
      riskReduction ==
        (b.ckdProgressionRisk - result.ckdProgressionRisk)
        + Mul(b.cardiovascularRisk - result.cardiovascularRisk, 1, 2)
        + Mul(b.stoneRisk - result.stoneRisk, 3, 10)
      sideEffectRisk == sideEffectRiskOf(interactions)
  IN  [ combination |-> combo,
        score |->
          MathRound(gfrImprovement * 3
                    + Mul(riskReduction, 3, 2)
                    + (result.overallHealthScore - b.overallHealthScore) * 2
                    - sideEffectRisk * 2),
        gfrImprovement |-> round1(gfrImprovement),
        riskReduction |-> MathRound(riskReduction),
        sideEffectRisk |-> MathRound(sideEffectRisk),
        interactionCount |-> Len(interactions) ]

\* No sort at all: the rankings in generation order.
sortLeftOut(rs) == rs

\* A descending sort that is not stable: equal scores come out reversed.
sortByScoreUnstable(rs) ==
  LET n == Len(rs)
      position ==
        [i \in 1..n |->
           1 + Cardinality({j \in 1..n :
                              \/ rs[j].score > rs[i].score
                              \/ (rs[j].score = rs[i].score /\ j > i)})]
  IN  [k \in 1..n |-> rs[CHOOSE i \in 1..n : position[i] = k]]

\* Array.prototype.sort with (a, b) => b.score - a.score: descending by
\* score and stable, so equal scores keep their order.
sortByScore(rs) ==
  LET n == Len(rs)
      position ==
        [i \in 1..n |->
           1 + Cardinality({j \in 1..n :
                              \/ rs[j].score > rs[i].score
                              \/ (rs[j].score = rs[i].score /\ j < i)})]
  IN  [k \in 1..n |-> rs[CHOOSE i \in 1..n : position[i] = k]]

slice(s, from, to) == SubSeq(s, from + 1, Min2(to, Len(s)))

rankTreatmentCombinations(b, p, availableTreatments) ==
  IF Len(availableTreatments) = 0 THEN <<>>
  ELSE LET combos == combinations(availableTreatments)
           rankings ==
             [c \in 1..Len(combos) |-> rankCombination(b, p, combos[c])]
       IN  slice(sortByScore(rankings), 0, 10)

-----------------------------------------------------------------------------
(* Inputs of the engine calls                                               *)

\* Longest treatment list over all of TreatmentChoices.
MaxTreatments == 3
\* Longest treatment list over LongChoices.
MaxLongList == 5

TreatmentChoices ==
  { [medicine |-> Enalapril10mg, tablets |-> 4],
    [medicine |-> Losartan50mg, tablets |-> 1],
    [medicine |-> Ibuprofen400mg, tablets |-> 2],
    [medicine |-> Amlodipine5mg, tablets |-> 1],
    [medicine |-> Carvedilol12_5mg, tablets |-> 1] }

LongChoices ==
  { [medicine |-> Furosemide40mg, tablets |-> 1],
    [medicine |-> Ibuprofen400mg, tablets |-> 1] }

ListsOver(choices, maxLen) ==
  UNION { [1..n -> choices] : n \in 0..maxLen }

\* The caller's Treatment objects: one id per list position.
withIds(list) ==
  [i \in 1..Len(list) |->
     [id |-> i, medicine |-> list[i].medicine, tablets |-> list[i].tablets]]

\* Two-element lists that mix lexicon names with free-text names.
WordChoices ==
  { [medicine |-> AceInhibitor, tablets |-> 1],
    [medicine |-> GenericARB, tablets |-> 2],
    [medicine |-> Enalapril10mg, tablets |-> 4],
    [medicine |-> Losartan50mg, tablets |-> 1] }

\* Lists in which a custom, unclassified medicine stands among classified ones.
CustomChoices ==
  { [medicine |-> VitaminD3, tablets |-> 2],
    [medicine |-> Enalapril10mg, tablets |-> 4],
    [medicine |-> Ibuprofen400mg, tablets |-> 2] }

\* Two-element lists over the tablet counts of the dose-dependent classes.
DoseChoices ==
  { [medicine |-> Allopurinol300mg, tablets |-> 2],
    [medicine |-> Allopurinol300mg, tablets |-> 5],
    [medicine |-> Losartan50mg, tablets |-> 3],
    [medicine |-> Losartan50mg, tablets |-> 6],
    [medicine |-> LisinoprilHydrochlorothiazide, tablets |-> 1] }

\* Lists of at most two over the alkalizer and an ACE inhibitor.
AlkalizerChoices ==
  { [medicine |-> SodiumBicarbonate650mg, tablets |-> 1],
    [medicine |-> Enalapril10mg, tablets |-> 4] }

TreatmentLists ==
  { withIds(l) : l \in ListsOver(TreatmentChoices, MaxTreatments)
                       \cup ListsOver(LongChoices, MaxLongList)
                       \cup [1..2 -> WordChoices]
                       \cup ListsOver(CustomChoices, MaxTreatments)
                       \cup [1..2 -> DoseChoices]
                       \cup ListsOver(AlkalizerChoices, 2) }

\* The staging and calcium patients go through the calls with no treatment.
TreatmentListsFor(p) == IF p \in Patients THEN TreatmentLists ELSE {<<>>}

\* The sliders of the treatment panel: hydration 1..10, water 0.5..5,
\* protein 20..150, salt 1..15, exercise 0..10.
shifted(p, hyd, water, protein, salt, exercise) ==
  [ hydration |-> clamp(p.hydrationLevel + Num(hyd), Num(1), Num(10)),
    waterIntake |-> clamp(p.waterIntake + Tenths(water), Tenths(5), Num(5)),
    proteinIntake |-> clamp(p.proteinIntake + Num(protein), Num(20), Num(150)),
    saltIntake |-> clamp(p.saltIntake + Tenths(salt), Num(1), Num(15)),
    exerciseLevel |-> clamp(p.exerciseLevel + Num(exercise), 0, Num(10)) ]

AdjustmentChoices(p) ==
  { defaultAdj(p),
    shifted(p, 3, 10, -10, -20, 2),
    shifted(p, -1, -5, 15, 25, -1),
    shifted(p, 0, 0, 0, -5, 0) }

NoMetrics == [none |-> TRUE]
\* The state of a component that is not on the page.
Unmounted == [unmounted |-> TRUE]
\* reportData before any report has been generated.
NoReport == [none |-> TRUE]

\* The two module-level objects as the module's top level builds them.
LoadedStatics ==
  [ DRUG_INTERACTIONS |-> DRUG_INTERACTIONS,
    MEDICINE_CATEGORIES |-> MEDICINE_CATEGORIES ]

\* A detector that takes the entries it reports out of the table.
staticsWithHitsRemoved(s, ts) ==
  LET found == detectDrugInteractions(ts)
      reported == { found[k].description : k \in 1..Len(found) }
  IN  [s EXCEPT !.DRUG_INTERACTIONS =
                  SelectSeq(@, LAMBDA entry : entry.description \notin reported)]

\* The module-level objects after detectDrugInteractions has run over ts:
\* the loop reads each table entry and pushes a spread copy of it with the
\* two names filled in (lines 452-460), and the classifier only reads the
\* lexicon (lines 185-187), so both objects are as they were.
staticsAfterDetection(s, ts) == s

-----------------------------------------------------------------------------
(* The engine calls of one session                                          *)

Init ==
  /\ pc = "intake"
  /\ patient \in Patients \cup StagingPatients \cup {HighCalciumPatient}
  /\ baseline = NoMetrics
  /\ treatments = <<>>
  /\ adjustments = defaultAdj(patient)
  /\ drugInteractions = <<>>
  /\ treatmentRankings = <<>>
  /\ simulated = NoMetrics
  /\ daysAhead = 0
  /\ projected = NoMetrics
  /\ statics = LoadedStatics
  /\ step = Unmounted /\ form = Unmounted /\ clock = 0 /\ reportData = NoReport

CalculateBaseline ==
  /\ pc = "intake"
  /\ baseline' = calculateBaselineMetrics(patient)
  /\ pc' = "baseline"
  /\ UNCHANGED <<patient, treatments, adjustments, drugInteractions,
                 treatmentRankings, simulated, daysAhead, projected, statics>>
  /\ UNCHANGED uiVars

DetectInteractions ==
  /\ pc = "baseline"
  /\ \E ts \in TreatmentListsFor(patient) :
       /\ treatments' = ts
       /\ drugInteractions' = detectDrugInteractions(ts)
       /\ statics' = staticsAfterDetection(statics, ts)
  /\ pc' = "detected"
  /\ UNCHANGED <<patient, baseline, adjustments, treatmentRankings, simulated,
                 daysAhead, projected>>
  /\ UNCHANGED uiVars

Rank ==
  /\ pc = "detected"
  /\ treatmentRankings' = rankTreatmentCombinations(baseline, patient, treatments)
  /\ statics' = staticsAfterDetection(statics, treatments)
  /\ pc' = "ranked"
  /\ UNCHANGED <<patient, baseline, treatments, adjustments, drugInteractions,
                 simulated, daysAhead, projected>>
  /\ UNCHANGED uiVars

Simulate ==
  /\ pc = "ranked"
  /\ \E adj \in AdjustmentChoices(patient) :
       /\ adjustments' = adj
       /\ simulated' = simulateTreatment(baseline, patient, treatments, adj)
  /\ statics' = staticsAfterDetection(statics, treatments)
  /\ pc' = "simulated"
  /\ UNCHANGED <<patient, baseline, treatments, drugInteractions,
                 treatmentRankings, daysAhead, projected>>
  /\ UNCHANGED uiVars

\* The dashboard projects the simulated snapshot, or the baseline before any
\* simulation has run.
Project ==
  /\ pc \in {"baseline", "simulated"}
  /\ \E days \in Horizons :
       /\ daysAhead' = days
       /\ projected' =
            predictFutureMetrics(IF simulated = NoMetrics THEN baseline
                                 ELSE simulated, days)
  /\ pc' = "projected"
  /\ UNCHANGED <<patient, baseline, treatments, adjustments, drugInteractions,
                 treatmentRankings, simulated, statics>>
  /\ UNCHANGED uiVars

Next ==
  \/ CalculateBaseline
  \/ DetectInteractions
  \/ Rank
  \/ Simulate
  \/ Project

Spec == Init /\ [][Next]_vars

-----------------------------------------------------------------------------
(* The engine calls in any order                                            *)

\* The engine's five functions are exported and any caller may call them in
\* any order, again and again, for one patient or another; JavaScript runs
\* each call to its end before the next starts.  The variables hold what the
\* caller holds: the arguments it last built and the result each function
\* last returned.
CallPatients == { Stone50M, Ckd65M }

CallLists ==
  { withIds(<< [medicine |-> Enalapril10mg, tablets |-> 4],
               [medicine |-> Losartan50mg, tablets |-> 1] >>),
    withIds(<< [medicine |-> Ibuprofen400mg, tablets |-> 2],
               [medicine |-> VitaminD3, tablets |-> 2],
               [medicine |-> Furosemide40mg, tablets |-> 1] >>) }

CallHorizons == { 30, 365 }

InitCalls ==
  /\ pc = "intake"
  /\ patient \in CallPatients
  /\ baseline = NoMetrics
  /\ treatments = <<>>
  /\ adjustments = defaultAdj(patient)
  /\ drugInteractions = <<>>
  /\ treatmentRankings = <<>>
  /\ simulated = NoMetrics
  /\ daysAhead = 0
  /\ projected = NoMetrics
  /\ statics = LoadedStatics
  /\ step = Unmounted /\ form = Unmounted /\ clock = 0 /\ reportData = NoReport

CallBaseline ==
  /\ \E p \in CallPatients :
       /\ patient' = p
       /\ baseline' = calculateBaselineMetrics(p)
  /\ pc' = "baseline"
  /\ UNCHANGED <<treatments, adjustments, drugInteractions, treatmentRankings,
                 simulated, daysAhead, projected, statics>>
  /\ UNCHANGED uiVars

CallDetect ==
  /\ \E ts \in CallLists :
       /\ treatments' = ts
       /\ drugInteractions' = detectDrugInteractions(ts)
       /\ statics' = staticsAfterDetection(statics, ts)
  /\ pc' = "detected"
  /\ UNCHANGED <<patient, baseline, adjustments, treatmentRankings, simulated,
                 daysAhead, projected>>
  /\ UNCHANGED uiVars

CallRank ==
  /\ baseline # NoMetrics
  /\ treatmentRankings' = rankTreatmentCombinations(baseline, patient, treatments)
  /\ statics' = staticsAfterDetection(statics, treatments)
  /\ pc' = "ranked"
  /\ UNCHANGED <<patient, baseline, treatments, adjustments, drugInteractions,
                 simulated, daysAhead, projected>>
  /\ UNCHANGED uiVars

CallSimulate ==
  /\ baseline # NoMetrics
  /\ adjustments' = defaultAdj(patient)
  /\ simulated' =
       simulateTreatment(baseline, patient, treatments, defaultAdj(patient))
  /\ statics' = staticsAfterDetection(statics, treatments)
  /\ pc' = "simulated"
  /\ UNCHANGED <<patient, baseline, treatments, drugInteractions,
                 treatmentRankings, daysAhead, projected>>
  /\ UNCHANGED uiVars

CallProject ==
  /\ baseline # NoMetrics
  /\ \E days \in CallHorizons :
       /\ daysAhead' = days
       /\ projected' =
            predictFutureMetrics(IF simulated = NoMetrics THEN baseline
                                 ELSE simulated, days)
  /\ pc' = "projected"
  /\ UNCHANGED <<patient, baseline, treatments, adjustments, drugInteractions,
                 treatmentRankings, simulated, statics>>
  /\ UNCHANGED uiVars

NextCalls ==
  \/ CallBaseline
  \/ CallDetect
  \/ CallRank
  \/ CallSimulate
  \/ CallProject

SpecCalls == InitCalls /\ [][NextCalls]_vars

-----------------------------------------------------------------------------
(* Number(text), as the form and the treatment panel use it                 *)

Digits == <<"0","1","2","3","4","5","6","7","8","9">>

isDigit(c) == \E d \in 1..10 : Digits[d] = c
digitValue(c) == (CHOOSE d \in 1..10 : Digits[d] = c) - 1
allDigits(s) == \A i \in 1..Len(s) : isDigit(s[i])

RECURSIVE integerValue(_)
integerValue(s) ==
  IF s = <<>> THEN 0
  ELSE 10 * integerValue(SubSeq(s, 1, Len(s) - 1)) + digitValue(s[Len(s)])

\* The digits after the point; the texts drawn below have at most three.
RECURSIVE fractionValue(_, _, _)
fractionValue(s, i, weight) ==
  IF i > Len(s) \/ i > 3 THEN 0
  ELSE digitValue(s[i]) * weight + fractionValue(s, i + 1, weight \div 10)

NaN == [nan |-> TRUE, value |-> 0]

\* String.prototype.trim over blanks.
RECURSIVE trim(_)
trim(s) ==
  IF s = <<>> THEN s
  ELSE IF Head(s) = " " THEN trim(Tail(s))
  ELSE IF s[Len(s)] = " " THEN trim(SubSeq(s, 1, Len(s) - 1))
  ELSE s

\* An unsigned decimal literal: digits, at most one point, a digit somewhere.
unsignedNumber(s) ==
  LET points == { i \in 1..Len(s) : s[i] = "." }
      cut == IF points = {} THEN Len(s) + 1 ELSE CHOOSE i \in points : TRUE
      whole == SubSeq(s, 1, cut - 1)
      fraction == SubSeq(s, cut + 1, Len(s))
  IN  IF /\ Cardinality(points) <= 1
         /\ allDigits(whole) /\ allDigits(fraction)
         /\ Len(whole) + Len(fraction) > 0
      THEN [ nan |-> FALSE,
             value |-> Num(integerValue(whole))
                         + fractionValue(fraction, 1, Unit \div 10) ]
      ELSE NaN

\* Number(text): the empty or blank text is 0, a signed decimal literal is
\* its value, any other text is NaN.  Exponents, hexadecimal literals and
\* "Infinity" are not among the texts drawn below.
Number(text) ==
  LET t == trim(text)
  IN  IF t = <<>> THEN [nan |-> FALSE, value |-> 0]
      ELSE IF Head(t) = "-"
      THEN LET n == unsignedNumber(Tail(t))
           IN  [nan |-> n.nan, value |-> 0 - n.value]
      ELSE IF Head(t) = "+" THEN unsignedNumber(Tail(t))
      ELSE unsignedNumber(t)

\* Number(text) || fallback: NaN and 0 are falsy.
orElse(n, fallback) == IF n.nan \/ n.value = 0 THEN fallback ELSE n.value

-----------------------------------------------------------------------------
(* The intake form                                                          *)

\* Index holds no patient until the form is submitted.
NoPatient == [none |-> TRUE]

\* The last of the four pages of the form.
LastStep == 3

\* useState of lines 33-70, over the fields of PatientData the engine reads.
EmptyForm ==
  [ age |-> <<>>, gender |-> "male", weight |-> <<>>,
    systolicBP |-> <<>>, diastolicBP |-> <<>>, glucose |-> <<>>,
    uricAcid |-> <<>>, hydrationLevel |-> Num(5),
    serumCreatinine |-> <<>>, bun |-> <<>>,
    serumCalcium |-> <<>>, serumPotassium |-> <<>>,
    serumSodium |-> <<>>, serumPhosphorus |-> <<>>,
    serumAlbumin |-> <<>>, hemoglobin |-> <<>>,
    hba1c |-> <<>>, cholesterol |-> <<>>, triglycerides |-> <<>>,
    urineProtein |-> <<>>, urineAlbumin |-> <<>>,
    parathyroidHormone |-> <<>>, vitaminD |-> <<>>,
    cReactiveProtein |-> <<>>,
    existingConditions |-> {}, currentMedicines |-> <<>>,
    proteinIntake |-> <<>>, saltIntake |-> <<>>, waterIntake |-> <<>>,
    exerciseLevel |-> Num(3), smokingStatus |-> "never",
    alcoholUnitsPerWeek |-> <<>> ]

\* Lines 82-119: the PatientData built from the form.  The medicines text
\* stays empty here, so its split gives the empty list.
handleSubmit(f) ==
  [ age |-> orElse(Number(f.age), Num(45)),
    gender |-> f.gender,
    weight |-> orElse(Number(f.weight), Num(70)),
    systolicBP |-> orElse(Number(f.systolicBP), Num(120)),
    diastolicBP |-> orElse(Number(f.diastolicBP), Num(80)),
    glucose |-> orElse(Number(f.glucose), Num(95)),
    uricAcid |-> orElse(Number(f.uricAcid), Tenths(55)),
    hydrationLevel |-> f.hydrationLevel,
    serumCreatinine |-> orElse(Number(f.serumCreatinine), Tenths(10)),
    bun |-> orElse(Number(f.bun), Num(15)),
    serumCalcium |-> orElse(Number(f.serumCalcium), Tenths(95)),
    serumPotassium |-> orElse(Number(f.serumPotassium), Tenths(42)),
    serumSodium |-> orElse(Number(f.serumSodium), Num(140)),
    serumPhosphorus |-> orElse(Number(f.serumPhosphorus), Tenths(38)),
    serumAlbumin |-> orElse(Number(f.serumAlbumin), Tenths(40)),
    hemoglobin |-> orElse(Number(f.hemoglobin),
                          IF f.gender = "female" THEN Num(13) ELSE Tenths(145)),
    hba1c |-> orElse(Number(f.hba1c), Tenths(55)),
    cholesterol |-> orElse(Number(f.cholesterol), Num(180)),
    triglycerides |-> orElse(Number(f.triglycerides), Num(120)),
    urineProtein |-> orElse(Number(f.urineProtein), Num(50)),
    urineAlbumin |-> orElse(Number(f.urineAlbumin), Num(15)),
    parathyroidHormone |-> orElse(Number(f.parathyroidHormone), Num(45)),
    vitaminD |-> orElse(Number(f.vitaminD), Num(35)),
    cReactiveProtein |-> orElse(Number(f.cReactiveProtein), Tenths(10)),
    existingConditions |-> f.existingConditions,
    currentMedicines |-> <<>>,
    proteinIntake |-> orElse(Number(f.proteinIntake), Num(60)),
    saltIntake |-> orElse(Number(f.saltIntake), Num(5)),
    waterIntake |-> orElse(Number(f.waterIntake), Tenths(20)),
    exerciseLevel |-> f.exerciseLevel,
    smokingStatus |-> f.smokingStatus,
    alcoholUnitsPerWeek |-> orElse(Number(f.alcoholUnitsPerWeek), 0) ]

\* What is typed into the serum-creatinine field: nothing, zero, zero with
\* decimals, a word, a negative number, and two positive numbers.
CreatinineTexts ==
  { <<>>, <<"0">>, <<"0",".","0","0">>, <<"a","b","c">>, <<"-","1">>,
    <<"1",".","2">>, <<" ","0",".","9","5">> }

AgeTexts == { <<>>, <<"5","0">>, <<"-","3">> }

\* The page of the form each typed field is on (lines 124-206).
FieldTexts ==
  [ age |-> [page |-> 0, texts |-> AgeTexts],
    serumCreatinine |-> [page |-> 1, texts |-> CreatinineTexts] ]

InitIntake ==
  /\ pc = "intake"
  /\ patient = NoPatient
  /\ baseline = NoMetrics
  /\ treatments = <<>>
  /\ adjustments = Unmounted
  /\ drugInteractions = <<>>
  /\ treatmentRankings = <<>>
  /\ simulated = NoMetrics
  /\ daysAhead = 0
  /\ projected = NoMetrics
  /\ statics = LoadedStatics
  /\ step = 0
  /\ form = EmptyForm
  /\ clock = 0
  /\ reportData = NoReport

dashboardVars ==
  <<baseline, treatments, adjustments, drugInteractions, treatmentRankings,
    simulated, daysAhead, projected, statics, clock, reportData>>

\* updateField from the onChange of an input on the page that is shown.
UpdateField ==
  /\ pc = "intake"
  /\ \E field \in DOMAIN FieldTexts :
       /\ step = FieldTexts[field].page
       /\ \E text \in FieldTexts[field].texts :
            form' = [form EXCEPT ![field] = text]
  /\ UNCHANGED <<pc, patient, step>>
  /\ UNCHANGED dashboardVars

\* updateField from the gender select of the first page.
SelectGender ==
  /\ pc = "intake"
  /\ step = 0
  /\ \E g \in {"male", "female"} : form' = [form EXCEPT !.gender = g]
  /\ UNCHANGED <<pc, patient, step>>
  /\ UNCHANGED dashboardVars

\* The row of page buttons: setStep(i).
SetStep ==
  /\ pc = "intake"
  /\ \E i \in 0..LastStep : step' = i
  /\ UNCHANGED <<pc, patient, form>>
  /\ UNCHANGED dashboardVars

\* Back, disabled on the first page.
StepBack ==
  /\ pc = "intake"
  /\ step # 0
  /\ step' = step - 1
  /\ UNCHANGED <<pc, patient, form>>
  /\ UNCHANGED dashboardVars

\* Continue, shown on every page but the last.
StepContinue ==
  /\ pc = "intake"
  /\ step < LastStep
  /\ step' = step + 1
  /\ UNCHANGED <<pc, patient, form>>
  /\ UNCHANGED dashboardVars

\* Generate Digital Kidney, shown on the last page: handleSubmit hands the
\* PatientData to onSubmit, Index stores it and leaves the intake view.
SubmitForm ==
  /\ pc = "intake"
  /\ step = LastStep
  /\ patient' = handleSubmit(form)
  /\ pc' = "submitted"
  /\ step' = Unmounted
  /\ form' = Unmounted
  /\ UNCHANGED dashboardVars

NextIntake ==
  \/ UpdateField
  \/ SelectGender
  \/ SetStep
  \/ StepBack
  \/ StepContinue
  \/ SubmitForm

SpecIntake == InitIntake /\ [][NextIntake]_vars

-----------------------------------------------------------------------------
(* The simulation dashboard and its treatment panel                         *)

\* Most treatments the panel holds here.
MaxPanelTreatments == 2
\* Last millisecond the clock reaches here.
MaxClock == 1

\* Number.prototype.toString of a non-negative integer.
RECURSIVE toString(_)
toString(n) ==
  IF n < 10 THEN <<Digits[n + 1]>>
  ELSE toString(n \div 10) \o <<Digits[(n % 10) + 1]>>

\* Two of the quick-add buttons of COMMON_MEDICINES.
PanelMedicines == { Enalapril10mg, Losartan50mg }

\* What is typed into a tablets field: zero, nothing (the field cleared)
\* and a negative number.
TabletTexts == { <<"0">>, <<>>, <<"-","1">> }

\* The values the hydration slider is moved to (min 1, max 10, step 1).
HydrationStops == { Num(3), Num(6) }

InitDashboard ==
  /\ pc = "simulation"
  /\ patient = Stone50M
  /\ baseline = calculateBaselineMetrics(patient)
  /\ treatments = <<>>
  /\ adjustments = defaultAdj(patient)
  /\ drugInteractions = <<>>
  /\ treatmentRankings = <<>>
  /\ simulated = NoMetrics
  /\ daysAhead = 0
  /\ projected = NoMetrics
  /\ statics = LoadedStatics
  /\ step = Unmounted
  /\ form = Unmounted
  /\ clock = 0
  /\ reportData = NoReport

\* What no handler of the dashboard writes.
fixedVars == <<patient, baseline, daysAhead, projected, statics, step, form>>
resultVars == <<drugInteractions, treatmentRankings, simulated>>

\* Time passes between two events.
Tick ==
  /\ pc = "simulation"
  /\ clock < MaxClock
  /\ clock' = clock + 1
  /\ UNCHANGED <<pc, treatments, adjustments, reportData>>
  /\ UNCHANGED resultVars
  /\ UNCHANGED fixedVars

\* Lines 56-69, from a quick-add button: the name is never blank.
addTreatment(ts, now, medicine) ==
  Append(ts, [id |-> toString(now), medicine |-> medicine, tablets |-> 1])

AddTreatment ==
  /\ pc = "simulation"
  /\ Len(treatments) < MaxPanelTreatments
  /\ \E medicine \in PanelMedicines :
       treatments' = addTreatment(treatments, clock, medicine)
  /\ UNCHANGED <<pc, adjustments, clock, reportData>>
  /\ UNCHANGED resultVars
  /\ UNCHANGED fixedVars

\* Line 71.
removeTreatment(ts, id) == SelectSeq(ts, LAMBDA t : t.id # id)

RemoveTreatment ==
  /\ pc = "simulation"
  /\ \E k \in 1..Len(treatments) :
       treatments' = removeTreatment(treatments, treatments[k].id)
  /\ UNCHANGED <<pc, adjustments, clock, reportData>>
  /\ UNCHANGED resultVars
  /\ UNCHANGED fixedVars

\* Lines 73-75, for the tablets field.
updateTreatment(ts, id, value) ==
  [i \in 1..Len(ts) |->
     IF ts[i].id = id THEN [ts[i] EXCEPT !.tablets = value] ELSE ts[i]]

\* Lines 125-131: onChange hands Number(e.target.value) to updateTreatment;
\* the texts drawn are whole numbers, kept as plain integers like tablets: 1.
UpdateTablets ==
  /\ pc = "simulation"
  /\ \E k \in 1..Len(treatments), text \in TabletTexts :
       treatments' = updateTreatment(treatments, treatments[k].id,
                                     Number(text).value \div Unit)
  /\ UNCHANGED <<pc, adjustments, clock, reportData>>
  /\ UNCHANGED resultVars
  /\ UNCHANGED fixedVars

\* Line 154: the hydration slider.
MoveSlider ==
  /\ pc = "simulation"
  /\ \E v \in HydrationStops : adjustments' = [adjustments EXCEPT !.hydration = v]
  /\ UNCHANGED <<pc, treatments, clock, reportData>>
  /\ UNCHANGED resultVars
  /\ UNCHANGED fixedVars

\* Lines 101-108.
RunSimulation ==
  /\ pc = "simulation"
  /\ simulated' = simulateTreatment(baseline, patient, treatments, adjustments)
  /\ drugInteractions' = detectDrugInteractions(treatments)
  /\ treatmentRankings' =
       rankTreatmentCombinations(baseline, patient, treatments)
  /\ UNCHANGED <<pc, treatments, adjustments, clock, reportData>>
  /\ UNCHANGED fixedVars

\* Line 181 and handleGenerateReport of Index: the bundle is stored and the
\* report view replaces the dashboard, whose state is read no more.
GenerateReport ==
  /\ pc = "simulation"
  /\ reportData' =
       [ patient |-> patient, baseline |-> baseline, simulated |-> simulated,
         treatments |-> treatments, adjustments |-> adjustments,
         drugInteractions |-> drugInteractions,
         treatmentRankings |-> treatmentRankings ]
  /\ pc' = "report"
  /\ UNCHANGED <<treatments, adjustments, clock>>
  /\ UNCHANGED resultVars
  /\ UNCHANGED fixedVars

NextDashboard ==
  \/ Tick
  \/ AddTreatment
  \/ RemoveTreatment
  \/ UpdateTablets
  \/ MoveSlider
  \/ RunSimulation
  \/ GenerateReport

SpecDashboard == InitDashboard /\ [][NextDashboard]_vars

-----------------------------------------------------------------------------
(* Properties of the engine calls                                           *)

\* The fields the metrics type scales 0-100.
ScoreFields ==
  { "stoneRisk", "stressIndex", "ckdProgressionRisk", "cardiovascularRisk",
    "akirisk", "infectionRisk", "efficiency", "electrolyteBalance",
    "acidBaseBalance", "mineralBoneScore", "anemiaScore", "inflammationScore",
    "kidneyPerfusionIndex", "nephronHealth", "interstitialHealth",
    "vascularHealth", "overallHealthScore" }

HeatmapRegions ==
  { "glomerular", "tubular", "vascular", "interstitial", "collecting",
    "cortex", "medulla" }

InRange(m) ==
  /\ \A f \in ScoreFields : m[f] >= 0 /\ m[f] <= Num(100)
  /\ \A r \in HeatmapRegions :
       m.riskHeatmap[r] >= 0 /\ m.riskHeatmap[r] <= Num(100)
  /\ m.gfr >= Num(3) /\ m.gfr <= Num(160)

\* The snapshot predictFutureMetrics was handed.
projectionSource == IF simulated = NoMetrics THEN baseline ELSE simulated

\* C1: whatever the treatment list and the adjustments, the snapshot that
\* simulateTreatment returns from an in-range baseline has every 0-100 field
\* (the seven heatmap regions included) in [0,100] and gfr in [3,160].
C1_SimulatedInRange ==
  (pc = "simulated" /\ InRange(baseline)) => InRange(simulated)

\* C2: the snapshot calculateBaselineMetrics returns for a well-formed
\* patient has every 0-100 field (the seven heatmap regions included) in
\* [0,100] and gfr in [3,160].
C2_BaselineInRange ==
  pc = "baseline" => InRange(baseline)

\* The raw CKD-EPI value of the patient lies below 3 and four of the raw
\* scores lie outside 0..100, so the clamps of the calculator have acted.
C2_Witness ==
  /\ pc = "baseline"
  /\ ckdEpi(patient.age, patient.gender, patient.serumCreatinine) < Num(3)
  /\ baseline.gfr = Num(3)
  /\ baseline.stressIndex = Num(100)
  /\ baseline.akirisk = Num(100)
  /\ baseline.riskHeatmap.glomerular = 0

\* C3: for an in-range input snapshot and any horizon, the snapshot that
\* predictFutureMetrics returns has gfr in [3,160] and every 0-100 field in
\* [0,100], also when the input gfr is 3 or 160.
C3_ProjectedInRange ==
  (pc = "projected" /\ InRange(projectionSource)) => InRange(projected)

\* C4: simulateTreatment with no treatment and with the patient's own
\* lifestyle values as adjustments returns the baseline, field for field.
C4_NoOpSimulation ==
  (pc = "simulated" /\ treatments = <<>> /\ adjustments = defaultAdj(patient))
    => simulated = baseline

\* The pool positions of a combination: the caller's ids are list positions.
idsOf(combo) == [k \in 1..Len(combo) |-> combo[k].id]

\* The index subsets of sizes 1, 2 and 3 of a pool of n treatments.
IndexSubsets(n) == { S \in SUBSET (1..n) : Cardinality(S) \in 1..3 }

\* The treatments of the pool at the positions S, in pool order.
RECURSIVE inPoolOrder(_, _, _)
inPoolOrder(ts, S, i) ==
  IF i > Len(ts) THEN <<>>
  ELSE (IF i \in S THEN <<ts[i]>> ELSE <<>>) \o inPoolOrder(ts, S, i + 1)

\* n + C(n,2) + C(n,3)
subsetCount(n) ==
  n + (n * (n - 1)) \div 2 + (n * (n - 1) * (n - 2)) \div 6

\* Generation order: singles before pairs before triples, and within one size
\* the lexicographic order of the position sequences.
RECURSIVE lexBefore(_, _, _)
lexBefore(a, b, k) ==
  /\ k <= Len(a)
  /\ \/ a[k] < b[k]
     \/ (a[k] = b[k] /\ lexBefore(a, b, k + 1))

generatedBefore(c1, c2) ==
  \/ Len(c1) < Len(c2)
  \/ (Len(c1) = Len(c2) /\ lexBefore(idsOf(c1), idsOf(c2), 1))

returnedCombinations ==
  { treatmentRankings[i].combination : i \in 1..Len(treatmentRankings) }

\* C5: rankTreatmentCombinations returns at most 10 entries, and each entry's
\* score is >= the score of the entry after it.
C5_AtMostTenSortedByScore ==
  pc = "ranked" =>
    /\ Len(treatmentRankings) <= 10
    /\ \A i \in 1..(Len(treatmentRankings) - 1) :
         treatmentRankings[i].score >= treatmentRankings[i + 1].score

\* A pool with more than 10 combinations whose result holds 10 entries of
\* more than one score, the best of them not the first one generated.
C5_Witness ==
  /\ pc = "ranked"
  /\ Len(combinations(treatments)) > 10
  /\ Len(treatmentRankings) = 10
  /\ treatmentRankings[1].score > treatmentRankings[10].score
  /\ treatmentRankings[1].combination # <<treatments[1]>>

C7_StableTiesAndCutAfterSort ==
  pc = "ranked" =>
    /\ \A i, j \in 1..Len(treatmentRankings) :
         (i < j /\ treatmentRankings[i].score = treatmentRankings[j].score)
           => generatedBefore(treatmentRankings[i].combination,
                              treatmentRankings[j].combination)
    /\ \A S \in IndexSubsets(Len(treatments)) :
         LET combo == inPoolOrder(treatments, S, 1)
             score == rankCombination(baseline, patient, combo).score
             last == treatmentRankings[Len(treatmentRankings)]
         IN  combo \notin returnedCombinations =>
               /\ score <= last.score
               /\ score = last.score => generatedBefore(last.combination, combo)

\* Two returned entries tie, and a combination that ties with the last
\* returned entry has been cut.
C7_Witness ==
  /\ pc = "ranked"
  /\ Len(treatmentRankings) = 10
  /\ \E i \in 1..9 :
       treatmentRankings[i].score = treatmentRankings[i + 1].score
  /\ \E S \in IndexSubsets(Len(treatments)) :
       LET combo == inPoolOrder(treatments, S, 1)
       IN  /\ combo \notin returnedCombinations
           /\ rankCombination(baseline, patient, combo).score
                = treatmentRankings[10].score

\* The value the score rounds, on the grid of Unit / 20: 3 * dGFR
\* + 1.5 * (dCKD + 0.5 * dCV + 0.3 * dStone) + 2 * dOverall
\* - 2 * (30 * #severe + 10 * #moderate), with baseline-minus-result risks.
unroundedScore(b, result, interactions) ==
  3 * (result.gfr - b.gfr)
  + Mul((b.ckdProgressionRisk - result.ckdProgressionRisk)
        + Mul(b.cardiovascularRisk - result.cardiovascularRisk, 1, 2)
        + Mul(b.stoneRisk - result.stoneRisk, 3, 10), 3, 2)
  + 2 * (result.overallHealthScore - b.overallHealthScore)
  - 2 * (Num(30) * countSeverity(interactions, "severe")
         + Num(10) * countSeverity(interactions, "moderate"))

\* C8: for every combination the ranker evaluates, with result the
\* simulation of the combination under the patient's own lifestyle values,
\* the score is the integer nearest to 3 * dGFR + 1.5 * (dCKD + 0.5 * dCV
\* + 0.3 * dStone) + 2 * dOverall - 2 * (30 * #severe + 10 * #moderate);
\* a mild interaction adds no penalty and is counted in interactionCount.
C8_ScoreFormula ==
  pc = "ranked" =>
    /\ \A S \in IndexSubsets(Len(treatments)) :
         LET combo == inPoolOrder(treatments, S, 1)
             entry == rankCombination(baseline, patient, combo)
             result ==
               simulateTreatment(baseline, patient, combo, defaultAdj(patient))
             interactions == detectDrugInteractions(combo)
             exact == unroundedScore(baseline, result, interactions)
         IN  /\ entry.score % Unit = 0
             /\ 2 * (entry.score - exact) <= Unit
             /\ 2 * (exact - entry.score) <= Unit
             /\ entry.interactionCount = Len(interactions)
             /\ entry.sideEffectRisk =
                  Num(30) * countSeverity(interactions, "severe")
                  + Num(10) * countSeverity(interactions, "moderate")
    /\ \A i \in 1..Len(treatmentRankings) :
         treatmentRankings[i] =
           rankCombination(baseline, patient, treatmentRankings[i].combination)

\* A returned triple with one mild interaction (a calcium channel blocker
\* with a beta blocker) and no other, scored above zero without a penalty.
C8_Witness ==
  /\ pc = "ranked"
  /\ \E i \in 1..Len(treatmentRankings) :
       /\ Len(treatmentRankings[i].combination) = 3
       /\ treatmentRankings[i].interactionCount = 1
       /\ countSeverity(
            detectDrugInteractions(treatmentRankings[i].combination), "mild") = 1
       /\ treatmentRankings[i].sideEffectRisk = 0
       /\ treatmentRankings[i].score > 0

\* A list rearranged by the permutation f of its positions.
permuted(ts, f) == [i \in 1..Len(ts) |-> ts[f[i]]]

\* An interaction read as an unordered pair of names with its three texts.
unordered(interaction) ==
  [ pair |-> {interaction.drug1, interaction.drug2},
    severity |-> interaction.severity,
    description |-> interaction.description,
    effect |-> interaction.effect ]

occurrences(interactions, u) ==
  Cardinality({k \in 1..Len(interactions) : unordered(interactions[k]) = u})

sameInteractions(xs, ys) ==
  /\ Len(xs) = Len(ys)
  /\ \A k \in 1..Len(xs) :
       occurrences(xs, unordered(xs[k])) = occurrences(ys, unordered(xs[k]))

\* C9: detectDrugInteractions returns, for every permutation of the treatment
\* list, the same multiset of interactions when each is read as an unordered
\* pair of medicine names with its severity, description and effect.
C9_DetectionOrderIndependent ==
  pc = "detected" =>
    \A f \in Permutations(1..Len(treatments)) :
      sameInteractions(detectDrugInteractions(permuted(treatments, f)),
                       drugInteractions)

\* Three treatments with three interactions between them, the first two
\* treatments standing in the reverse of the table's order.
C9_Witness ==
  /\ pc = "detected"
  /\ Len(treatments) = 3
  /\ Len(drugInteractions) = 3
  /\ categoryOf(treatments[1].medicine) = "nsaid"
  /\ categoryOf(treatments[2].medicine) = "arb"
  /\ categoryOf(treatments[3].medicine) = "ace"

\* C10: for a list of two treatments of which one classifies to "ace" and the
\* other to "arb", in either order, detectDrugInteractions returns exactly
\* one interaction, severe, described as "Dual RAAS blockade".
C10_AceWithArbIsSevere ==
  ( /\ pc = "detected"
    /\ Len(treatments) = 2
    /\ { getMedicineCategory(treatments[1].medicine),
         getMedicineCategory(treatments[2].medicine) } = {"ace", "arb"} )
    => /\ Len(drugInteractions) = 1
       /\ drugInteractions[1].severity = "severe"
       /\ drugInteractions[1].description = "Dual RAAS blockade"

\* The arb comes first and the ace second, both classed by the fallback
\* words and not by the lexicon.
C10_Witness ==
  /\ pc = "detected"
  /\ Len(treatments) = 2
  /\ treatments[1].medicine = GenericARB
  /\ treatments[2].medicine = AceInhibitor
  /\ getMedicineCategory(GenericARB) = "arb"
  /\ getMedicineCategory(AceInhibitor) = "ace"
  /\ Len(drugInteractions) = 1

\* The entries of the interaction table whose two classes are the classes of
\* the treatments at positions i and j, in either order.
tableEntriesFor(ts, i, j) ==
  { k \in 1..Len(DRUG_INTERACTIONS) :
      /\ categoryOf(ts[i].medicine) # NoCategory
      /\ categoryOf(ts[j].medicine) # NoCategory
      /\ { DRUG_INTERACTIONS[k].drug1, DRUG_INTERACTIONS[k].drug2 }
           = { categoryOf(ts[i].medicine), categoryOf(ts[j].medicine) } }

\* The unordered pairs of list positions whose classes interact.
interactingPositions(ts) ==
  { pr \in (1..Len(ts)) \X (1..Len(ts)) :
      pr[1] < pr[2] /\ tableEntriesFor(ts, pr[1], pr[2]) # {} }

\* The place of the pair pr among the interacting pairs, row by row.
placeOf(ts, pr) ==
  Cardinality({ q \in interactingPositions(ts) :
                  q[1] < pr[1] \/ (q[1] = pr[1] /\ q[2] <= pr[2]) })

\* C11: detectDrugInteractions returns exactly one entry for each unordered
\* pair of list positions whose two classes form, in either order, a pair of
\* the interaction table, carrying the two treatments' own medicine names and
\* the table's severity, description and effect, and no entry for any other
\* pair: at most n(n-1)/2 entries, none for two treatments of one class.
C11_OneEntryPerInteractingPair ==
  pc = "detected" =>
    LET n == Len(treatments)
    IN  /\ Len(drugInteractions) = Cardinality(interactingPositions(treatments))
        /\ 2 * Len(drugInteractions) <= n * (n - 1)
        /\ \A pr \in interactingPositions(treatments) :
             LET entry == drugInteractions[placeOf(treatments, pr)]
             IN  /\ Cardinality(tableEntriesFor(treatments, pr[1], pr[2])) = 1
                 /\ entry.drug1 = treatments[pr[1]].medicine
                 /\ entry.drug2 = treatments[pr[2]].medicine
                 /\ \A k \in tableEntriesFor(treatments, pr[1], pr[2]) :
                      /\ entry.severity = DRUG_INTERACTIONS[k].severity
                      /\ entry.description = DRUG_INTERACTIONS[k].description
                      /\ entry.effect = DRUG_INTERACTIONS[k].effect
        /\ \A i, j \in 1..n :
             (i < j /\ categoryOf(treatments[i].medicine)
                         = categoryOf(treatments[j].medicine))
               => <<i, j>> \notin interactingPositions(treatments)

\* Two treatments of one class and a third that interacts with each of them:
\* two entries, none for the pair of equals.
C11_Witness ==
  /\ pc = "detected"
  /\ Len(treatments) = 3
  /\ categoryOf(treatments[1].medicine) = "ace"
  /\ categoryOf(treatments[2].medicine) = "ace"
  /\ categoryOf(treatments[3].medicine) = "nsaid"
  /\ Len(drugInteractions) = 2
  /\ drugInteractions[1].drug1 = treatments[1].medicine
  /\ drugInteractions[2].drug1 = treatments[2].medicine

\* The list ts without its k-th treatment.
removeAt(ts, k) == SubSeq(ts, 1, k - 1) \o SubSeq(ts, k + 1, Len(ts))

\* The positions of ts whose medicine classifies to no class.
unclassifiedPositions(ts) ==
  { k \in 1..Len(ts) : categoryOf(ts[k].medicine) = NoCategory }

\* C12: a treatment whose medicine name classifies to no class is a silent
\* no-op: wherever it stands in the list, simulateTreatment returns the
\* snapshot it returns for the list without it, and detectDrugInteractions
\* returns the interactions it returns for the list without it.
C12_UnclassifiedMedicineIsNoOp ==
  /\ pc = "detected" =>
       \A k \in unclassifiedPositions(treatments) :
         detectDrugInteractions(removeAt(treatments, k)) = drugInteractions
  /\ pc = "simulated" =>
       \A k \in unclassifiedPositions(treatments) :
         simulateTreatment(baseline, patient, removeAt(treatments, k),
                           adjustments) = simulated

\* The unclassified medicine stands between an ACE inhibitor and an NSAID;
\* the simulation has moved the GFR and the detector has reported the pair.
C12_Witness ==
  /\ pc = "simulated"
  /\ Len(treatments) = 3
  /\ categoryOf(treatments[1].medicine) = "ace"
  /\ treatments[2].medicine = VitaminD3
  /\ categoryOf(treatments[3].medicine) = "nsaid"
  /\ getMedicineCategory(VitaminD3) = NoCategory
  /\ Len(drugInteractions) = 1
  /\ simulated.gfr # baseline.gfr

\* C13: projecting 0 days ahead is the identity: for the snapshot returned
\* by calculateBaselineMetrics or by simulateTreatment,
\* predictFutureMetrics(snapshot, 0) equals the snapshot in every field,
\* gfrCategory and ckdStage included.
C13_ZeroDaysIsIdentity ==
  (pc = "projected" /\ daysAhead = 0) => projected = projectionSource

\* The fields of a snapshot that the projection is said to move.
MovingFields ==
  { "gfr", "efficiency", "stressIndex", "stoneRisk", "ckdProgressionRisk",
    "cardiovascularRisk", "overallHealthScore" }

MovingRegions == { "glomerular", "tubular", "vascular" }

\* The projected snapshot has the fields of its source and differs from it
\* in no field outside `fields` and no heatmap region outside MovingRegions.
carriedThrough(fields) ==
  /\ DOMAIN projected = DOMAIN projectionSource
  /\ DOMAIN projected.riskHeatmap = DOMAIN projectionSource.riskHeatmap
  /\ \A f \in DOMAIN projectionSource \ (fields \cup {"riskHeatmap"}) :
       projected[f] = projectionSource[f]
  /\ \A r \in HeatmapRegions \ MovingRegions :
       projected.riskHeatmap[r] = projectionSource.riskHeatmap[r]

\* C14 as stated: predictFutureMetrics changes only gfr, efficiency,
\* stressIndex, stoneRisk, ckdProgressionRisk, cardiovascularRisk,
\* overallHealthScore and the glomerular, tubular and vascular regions of the
\* heatmap; every other field of the snapshot it returns, the other four
\* regions included, is identical to the input's.
C14_OnlyListedFieldsMove ==
  pc = "projected" => carriedThrough(MovingFields)

\* C14: predictFutureMetrics changes only gfr, gfrCategory, ckdStage,
\* efficiency, stressIndex, stoneRisk, ckdProgressionRisk, cardiovascularRisk,
\* overallHealthScore and the glomerular, tubular and vascular regions of the
\* heatmap; every other field of the snapshot it returns, the other four
\* regions included, is identical to the input's.
C14_OnlyListedAndStagingFieldsMove ==
  pc = "projected" => carriedThrough(MovingFields \cup {"gfrCategory", "ckdStage"})

\* A year's projection lifts a simulated GFR just under 90 across the
\* threshold: category and stage change with it, the rest is carried through.
C14_Witness ==
  /\ pc = "projected"
  /\ daysAhead = 365
  /\ simulated # NoMetrics
  /\ simulated.gfrCategory = getGFRCategory(simulated.gfr)
  /\ simulated.ckdStage = 2
  /\ projected.ckdStage = 1
  /\ projected.gfrCategory # simulated.gfrCategory
  /\ projected.riskHeatmap.glomerular # simulated.riskHeatmap.glomerular
  /\ projected.riskHeatmap.cortex = simulated.riskHeatmap.cortex
  /\ projected.creatinine = simulated.creatinine

\* The category and stage of the interval a GFR lies in.
stagingOf(gfr) ==
  CASE gfr >= Num(90) -> <<"G1 - Normal or High", 1>>
    [] gfr >= Num(60) /\ gfr < Num(90) -> <<"G2 - Mildly decreased", 2>>
    [] gfr >= Num(45) /\ gfr < Num(60) -> <<"G3a - Mild-moderate decrease", 3>>
    [] gfr >= Num(30) /\ gfr < Num(45) -> <<"G3b - Moderate-severe decrease", 3>>
    [] gfr >= Num(15) /\ gfr < Num(30) -> <<"G4 - Severely decreased", 4>>
    [] gfr < Num(15) -> <<"G5 - Kidney failure", 5>>

\* The GFR values the session has computed so far.
computedGfrs ==
  { m.gfr : m \in { baseline, simulated, projected } \ { NoMetrics } }

\* C16: getGFRCategory and getCKDStage map every GFR to the category and the
\* stage of its interval (>= 90 G1/1, [60,90) G2/2, [45,60) G3a/3,
\* [30,45) G3b/3, [15,30) G4/4, < 15 G5/5), and in every snapshot that
\* calculateBaselineMetrics returns gfrCategory and ckdStage are those of the
\* snapshot's gfr.
C16_StagingFollowsThresholds ==
  /\ \A g \in computedGfrs :
       <<getGFRCategory(g), getCKDStage(g)>> = stagingOf(g)
  /\ baseline # NoMetrics =>
       <<baseline.gfrCategory, baseline.ckdStage>> = stagingOf(baseline.gfr)

\* The patient whose baseline GFR is 91.7: category G1, stage 1.
C16_Witness ==
  /\ pc = "baseline"
  /\ patient = Stone50M
  /\ baseline.gfr = Tenths(917)
  /\ baseline.gfrCategory = "G1 - Normal or High"
  /\ baseline.ckdStage = 1

\* 8 + 12 max(uric acid - 6, 0) + 15 max(calcium - 10, 0)
\* + 8 max(phosphorus - 4.5, 0) + 8 max(5 - hydration, 0)
\* + 10 max(2 - water, 0) + 20 with kidney stones + 10 with gout
\* + 5 with urine protein above 150.
stoneRiskSum(p) ==
  Num(8)
  + 12 * Max2(p.uricAcid - Num(6), 0)
  + 15 * Max2(p.serumCalcium - Num(10), 0)
  + 8 * Max2(p.serumPhosphorus - Tenths(45), 0)
  + 8 * Max2(Num(5) - p.hydrationLevel, 0)
  + 10 * Max2(Num(2) - p.waterIntake, 0)
  + (IF "kidney_stones" \in p.existingConditions THEN Num(20) ELSE 0)
  + (IF "gout" \in p.existingConditions THEN Num(10) ELSE 0)
  + (IF p.urineProtein > Num(150) THEN Num(5) ELSE 0)

\* C17: the stoneRisk of the snapshot calculateBaselineMetrics returns is the
\* sum above, clamped to [0,100] and rounded; a patient with uric acid 8.0,
\* calcium 9.5, hydration 3 and no other contribution has stone risk 48.
C17_BaselineStoneRisk ==
  baseline # NoMetrics =>
    /\ baseline.stoneRisk
         = MathRound(Min2(Max2(stoneRiskSum(patient), 0), Num(100)))
    /\ ( /\ patient.uricAcid = Num(8)
         /\ patient.serumCalcium = Tenths(95)
         /\ patient.hydrationLevel = Num(3)
         /\ stoneRiskSum(patient) = Num(8) + 12 * Num(2) + 8 * Num(2) )
       => baseline.stoneRisk = Num(48)

\* The patient of the example: uric acid 8.0, calcium 9.5, hydration 3,
\* water 2 litres, no stones, no gout, urine protein 50.
C17_Witness ==
  /\ pc = "baseline"
  /\ patient.uricAcid = Num(8)
  /\ patient.serumCalcium = Tenths(95)
  /\ patient.hydrationLevel = Num(3)
  /\ patient.existingConditions = {}
  /\ baseline.stoneRisk = Num(48)

\* The lexicon entries <<class index, drug index>> whose drug name occurs in
\* the lower-cased medicine name.
lexiconHits(medicine) ==
  { h \in UNION { {c} \X (1..Len(MEDICINE_CATEGORIES[c].drugs)) :
                    c \in 1..Len(MEDICINE_CATEGORIES) } :
      includes(toLowerCase(medicine), MEDICINE_CATEGORIES[h[1]].drugs[h[2]]) }

\* The classes of the longest drug names that occur in the medicine name.
longestMatchClasses(medicine) ==
  LET hits == lexiconHits(medicine)
      length(h) == Len(MEDICINE_CATEGORIES[h[1]].drugs[h[2]])
  IN  { MEDICINE_CATEGORIES[h[1]].cat :
          h \in { g \in hits : \A o \in hits : length(g) >= length(o) } }

\* longestMatchClasses on the names used as inputs, evaluated once.
LongestMatchTable == [m \in MedicineNames |-> longestMatchClasses(m)]

\* getMedicineCategory on the lower-cased names, evaluated once.
LowerCaseCategoryTable ==
  [m \in MedicineNames |-> getMedicineCategory(toLowerCase(m))]

\* C18: getMedicineCategory is case-insensitive and longest-match: a name in
\* which lexicon drug names occur is given the class of the longest of them,
\* whatever the order of the lexicon, and the fallback words are consulted
\* only for a name in which no lexicon drug name occurs.
C18_LongestLexiconMatchWins ==
  pc = "detected" =>
    \A k \in 1..Len(treatments) :
      LET medicine == treatments[k].medicine
      IN  /\ categoryOf(medicine) = LowerCaseCategoryTable[medicine]
          /\ LongestMatchTable[medicine] # {}
               => LongestMatchTable[medicine] = { categoryOf(medicine) }

\* Tablet counts at and above the saturation point.
SaturatedTablets == {3, 4, 9}

\* The deltas of one treatment alone, and of one tablet of it.
deltasOf(t) == drugEffect(ZeroDeltas, t)
oneTabletOf(t) == [t EXCEPT !.tablets = 1]

\* C19: the dose effect saturates at three tablets: with the tablets of one
\* treatment changed from 3 or more to 3 or to any larger value,
\* simulateTreatment returns the same snapshot; and the dose-dependent deltas
\* (the GFR gain of an ACE inhibitor or an ARB, the uric-acid reduction of a
\* xanthine-oxidase inhibitor) are min(tablets, 3) times the delta of one
\* tablet.
C19_DoseSaturatesAtThree ==
  pc = "simulated" =>
    \A k \in 1..Len(treatments) :
      /\ treatments[k].tablets >= 3 =>
           \A n \in SaturatedTablets :
             simulateTreatment(baseline, patient,
                               [treatments EXCEPT ![k].tablets = n],
                               adjustments) = simulated
      /\ categoryOf(treatments[k].medicine) \in {"ace", "arb"} =>
           deltasOf(treatments[k]).gfrDelta
             = Min2(treatments[k].tablets, 3)
                 * deltasOf(oneTabletOf(treatments[k])).gfrDelta
      /\ categoryOf(treatments[k].medicine) = "xanthine_oxidase" =>
           deltasOf(treatments[k]).uricAcidDelta
             = Min2(treatments[k].tablets, 3)
                 * deltasOf(oneTabletOf(treatments[k])).uricAcidDelta

\* An ARB at six tablets and a xanthine-oxidase inhibitor at two: the GFR has
\* risen by three one-tablet gains and the uric acid fallen by two one-tablet
\* reductions.
C19_Witness ==
  /\ pc = "simulated"
  /\ patient = Ckd65M
  /\ adjustments = defaultAdj(patient)
  /\ Len(treatments) = 2
  /\ treatments[1].medicine = Losartan50mg /\ treatments[1].tablets = 6
  /\ treatments[2].medicine = Allopurinol300mg /\ treatments[2].tablets = 2
  /\ simulated.gfr = baseline.gfr + 3 * Tenths(28)
  /\ simulated.uricAcid = baseline.uricAcid - 2 * Tenths(15)

\* The deltas of the drugs and of the lifestyle changes, before any penalty.
unpenalisedDeltas ==
  lifestyleEffects(drugEffects(ZeroDeltas, treatments, 1), patient, adjustments)

\* The number of detected interactions of one severity.
detectedOf(severity) ==
  Cardinality({ k \in 1..Len(drugInteractions) :
                  drugInteractions[k].severity = severity })

\* The unpenalised deltas with 3 GFR and 5 stress reduction taken off for
\* each severe interaction and 1 and 2 for each moderate one.
penalisedDeltas ==
  [unpenalisedDeltas EXCEPT
     !.gfrDelta = @ - Num(3 * detectedOf("severe") + detectedOf("moderate")),
     !.stressReduction =
       @ - Num(5 * detectedOf("severe") + 2 * detectedOf("moderate"))]

\* C20: the interaction penalty is additive: with s severe and m moderate
\* interactions detected, and any number of mild ones, simulateTreatment works
\* from a GFR delta 3s + m lower and a stress reduction 5s + 2m lower than
\* the sum of the per-drug and lifestyle deltas, every other delta being that
\* sum; mild interactions change nothing.
C20_PenaltyIsAdditive ==
  pc = "simulated" =>
    /\ simulationDeltas(patient, treatments, adjustments) = penalisedDeltas
    /\ simulated = newMetrics(baseline, patient, penalisedDeltas)
    /\ Len(drugInteractions) = detectedOf("mild")
         => simulated = newMetrics(baseline, patient, unpenalisedDeltas)

\* One severe and two moderate interactions: an ACE inhibitor at four
\* tablets, an ARB and an NSAID leave the GFR 10.5 + 2.8 - 3 - 2 higher.
C20_Witness ==
  /\ pc = "simulated"
  /\ patient = Ckd65M
  /\ adjustments = defaultAdj(patient)
  /\ detectedOf("severe") = 1
  /\ detectedOf("moderate") = 2
  /\ unpenalisedDeltas.gfrDelta = Tenths(133)
  /\ simulated.gfr = baseline.gfr + Tenths(83)

\* The result the last call returned is the result of that call made alone:
\* the one the function gives for the arguments the caller holds, with the
\* two module-level objects as the module loaded them.
lastResultIsThatOfTheCallAlone ==
  /\ pc = "baseline" => baseline = calculateBaselineMetrics(patient)
  /\ pc = "detected" => drugInteractions = detectDrugInteractions(treatments)
  /\ pc = "ranked" =>
       treatmentRankings
         = rankTreatmentCombinations(baseline, patient, treatments)
  /\ pc = "simulated" =>
       simulated = simulateTreatment(baseline, patient, treatments, adjustments)
  /\ pc = "projected" =>
       projected = predictFutureMetrics(projectionSource, daysAhead)

\* A call leaves the objects it was handed as they were.
argumentsKept ==
  /\ pc' \in {"ranked", "simulated"} =>
       /\ patient' = patient
       /\ baseline' = baseline
       /\ treatments' = treatments
  /\ pc' = "projected" => (baseline' = baseline /\ simulated' = simulated)

alkalizerPositions(ts) ==
  { k \in 1..Len(ts) :
      /\ includes(toLowerCase(ts[k].medicine), StrSodiumBicarbonate)
      /\ LexiconMatches(toLowerCase(ts[k].medicine)) = {} }

alkalizerDeltas ==
  [ZeroDeltas EXCEPT !.gfrDelta = Num(3), !.ckdProgReduction = Num(4)]

namedIn(interactions, medicine) ==
  \E k \in 1..Len(interactions) :
    medicine \in {interactions[k].drug1, interactions[k].drug2}

C21_SodiumBicarbonateIsSpecialCase ==
  pc = "simulated" =>
    \A k \in alkalizerPositions(treatments) :
      /\ deltasOf(treatments[k]) = alkalizerDeltas
      /\ ~namedIn(detectDrugInteractions(treatments), treatments[k].medicine)
      /\ simulationDeltas(patient, treatments, adjustments)
           = interactionPenalties(
               lifestyleEffects(drugEffects(ZeroDeltas, treatments, 1),
                                patient, adjustments),
               detectDrugInteractions(
                 SelectSeq(treatments,
                           LAMBDA t : t.medicine # treatments[k].medicine)))

(***************************************************************************)
(* C22.  In every snapshot simulateTreatment returns, gfrCategory and      *)
(* ckdStage are the ones the staging thresholds assign to the returned gfr *)
(* field, for every baseline GFR and every reachable GFR delta, deltas     *)
(* with a fractional part such as x.x5 included.                           *)
(***************************************************************************)
C22_SimulatedStagingMatchesGfr ==
  pc = "simulated" =>
    /\ simulated.gfrCategory = getGFRCategory(simulated.gfr)
    /\ simulated.ckdStage = getCKDStage(simulated.gfr)

(***************************************************************************)
(* C23.  Time projection never worsens a snapshot: for every in-range      *)
(* input snapshot, whatever its efficiency in 5..100, and every horizon,   *)
(* the projected gfr and efficiency are at least the input's, the          *)
(* projected stress index, stone risk, CKD-progression risk and            *)
(* cardiovascular risk are at most the input's, and of two horizons over   *)
(* the same snapshot the longer one gives the higher or equal gfr.         *)
(***************************************************************************)
C23_ProjectionNeverWorsens ==
  (pc = "projected" /\ InRange(projectionSource)) =>
    /\ projected.gfr >= projectionSource.gfr
    /\ projected.efficiency >= projectionSource.efficiency
    /\ projected.stressIndex <= projectionSource.stressIndex
    /\ projected.stoneRisk <= projectionSource.stoneRisk
    /\ projected.ckdProgressionRisk <= projectionSource.ckdProgressionRisk
    /\ projected.cardiovascularRisk <= projectionSource.cardiovascularRisk
    /\ \A d \in Horizons :
         d <= daysAhead =>
           predictFutureMetrics(projectionSource, d).gfr <= projected.gfr

(***************************************************************************)
(* C24.  The caller guarantees a positive creatinine: whatever text the    *)
(* serum-creatinine field of the intake form holds (empty, "0", a word, a  *)
(* negative number), the PatientData handed to onSubmit has                *)
(* serumCreatinine > 0.                                                    *)
(***************************************************************************)
C24_SubmittedCreatinineIsPositive ==
  pc = "submitted" => patient.serumCreatinine > 0

(***************************************************************************)
(* C25.  After any sequence of add, update-tablets and remove operations   *)
(* in the treatment panel (typing 0, a negative number or clearing the     *)
(* tablets field included), every Treatment handed to simulateTreatment    *)
(* and rankTreatmentCombinations has tablets >= 1, so that its dose        *)
(* multiplier is one of 1, 2, 3.                                           *)
(***************************************************************************)
C25_SimulatedTabletsAtLeastOne ==
  [][RunSimulation =>
       \A k \in 1..Len(treatments) :
         /\ treatments[k].tablets >= 1
         /\ doseMultiplierOf(treatments[k].tablets) \in 1..3]_vars

(***************************************************************************)
(* C26.  Report-bundle consistency: after any sequence of dashboard        *)
(* actions (add, remove or update a treatment, move a slider, run the      *)
(* simulation, generate the report), whenever a report is generated with a *)
(* simulated snapshot, that snapshot is simulateTreatment of the bundle's  *)
(* baseline, patient, treatments and adjustments, the bundle's             *)
(* interactions are detectDrugInteractions of its treatments and its       *)
(* rankings are rankTreatmentCombinations of its treatments.               *)
(***************************************************************************)
C26_ReportBundleIsConsistent ==
  (pc = "report" /\ reportData.simulated # NoMetrics) =>
    /\ reportData.simulated =
         simulateTreatment(reportData.baseline, reportData.patient,
                           reportData.treatments, reportData.adjustments)
    /\ reportData.drugInteractions =
         detectDrugInteractions(reportData.treatments)
    /\ reportData.treatmentRankings =
         rankTreatmentCombinations(reportData.baseline, reportData.patient,
                                   reportData.treatments)

(***************************************************************************)
(* C30.  After any sequence of add and remove operations in the treatment  *)
(* panel, two adds within the same clock millisecond included, the         *)
(* treatments have pairwise distinct ids, so that removeTreatment(id)      *)
(* removes exactly one entry and updateTreatment(id, ...) changes exactly  *)
(* one.                                                                    *)
(***************************************************************************)
changedBy(ts, us) == { i \in 1..Len(ts) : ts[i] # us[i] }

C30_TreatmentIdsAreDistinct ==
  pc = "simulation" =>
    /\ \A i, j \in 1..Len(treatments) :
         i # j => treatments[i].id # treatments[j].id
    /\ \A k \in 1..Len(treatments) :
         /\ Len(removeTreatment(treatments, treatments[k].id))
              = Len(treatments) - 1
         /\ Cardinality(changedBy(treatments,
                                  updateTreatment(treatments, treatments[k].id,
                                                  treatments[k].tablets + 1)))
              = 1

(***************************************************************************)
(* C27.  Every one of the 15 entries of the interaction table is           *)
(* reachable: for each entry there are two medicine names that the         *)
(* classifier maps to the entry's two class tags, the tags potassium,      *)
(* metformin, contrast, allopurinol, azathioprine, lithium, fibrate,       *)
(* aminoglycoside, cyclosporine and trimethoprim included.                 *)
(***************************************************************************)
\* The class tags getMedicineCategory has a return statement for: the keys
\* of the lexicon (line 186) and the five literals of lines 188-193.
classifierRange ==
  { MEDICINE_CATEGORIES[c].cat : c \in 1..Len(MEDICINE_CATEGORIES) }
    \cup { "ace", "arb", "diuretic", "sglt2", "alkalizer" }

C27_EveryTableEntryIsReachable ==
  /\ \A m \in MedicineNames : categoryOf(m) \in classifierRange \cup {NoCategory}
  /\ \A k \in 1..Len(statics.DRUG_INTERACTIONS) :
       /\ statics.DRUG_INTERACTIONS[k].drug1 \in classifierRange
       /\ statics.DRUG_INTERACTIONS[k].drug2 \in classifierRange

(***************************************************************************)
(* C28.  simulateTreatment never raises a risk that treatments target: the *)
(* returned stoneRisk, ckdProgressionRisk and cardiovascularRisk are each  *)
(* at most the baseline's.  Only gfr and the stress-derived fields (the    *)
(* stress index, the AKI and infection risks and the scores offset by the  *)
(* stress reduction) can end up worse than the baseline, and only when     *)
(* interaction penalties outweigh the benefits.                            *)
(***************************************************************************)
targetedRisksNotRaised ==
  /\ simulated.stoneRisk <= baseline.stoneRisk
  /\ simulated.ckdProgressionRisk <= baseline.ckdProgressionRisk
  /\ simulated.cardiovascularRisk <= baseline.cardiovascularRisk

gfrOrStressWorse ==
  \/ simulated.gfr < baseline.gfr
  \/ simulated.stressIndex > baseline.stressIndex
  \/ simulated.akirisk > baseline.akirisk
  \/ simulated.infectionRisk > baseline.infectionRisk
  \/ simulated.electrolyteBalance < baseline.electrolyteBalance
  \/ simulated.acidBaseBalance < baseline.acidBaseBalance
  \/ simulated.kidneyPerfusionIndex < baseline.kidneyPerfusionIndex
  \/ simulated.interstitialHealth < baseline.interstitialHealth

penaltiesCharged ==
  countSeverity(detectDrugInteractions(treatments), "severe")
    + countSeverity(detectDrugInteractions(treatments), "moderate") > 0

otherFieldsNotWorse ==
  /\ simulated.creatinine <= baseline.creatinine
  /\ simulated.uricAcid <= baseline.uricAcid
  /\ simulated.bun <= baseline.bun
  /\ simulated.proteinuriaLevel <= baseline.proteinuriaLevel
  /\ simulated.mineralBoneScore >= baseline.mineralBoneScore
  /\ simulated.anemiaScore >= baseline.anemiaScore
  /\ simulated.inflammationScore >= baseline.inflammationScore
  /\ simulated.vascularHealth >= baseline.vascularHealth

C28_OnlyPenaltiesMakeWorse ==
  pc = "simulated" =>
    /\ targetedRisksNotRaised
    /\ gfrOrStressWorse => penaltiesCharged
    /\ otherFieldsNotWorse

(***************************************************************************)
(* C29.  Lifestyle changes in the harmful direction are ignored: the       *)
(* simulation with adjustments a equals the simulation with a', where a'   *)
(* has the patient's own value in place of each component of a that is     *)
(* worse than it (lower hydration, water or exercise; higher salt or       *)
(* protein).  No adjustment lowers the GFR or raises a risk below or above *)
(* what the simulation with the patient's own values returns.              *)
(***************************************************************************)
AdjustmentFields ==
  { "hydration", "waterIntake", "proteinIntake", "saltIntake", "exerciseLevel" }

harmfulRemoved(p, a) ==
  [ hydration |-> Max2(a.hydration, p.hydrationLevel),
    waterIntake |-> Max2(a.waterIntake, p.waterIntake),
    proteinIntake |-> Min2(a.proteinIntake, p.proteinIntake),
    saltIntake |-> Min2(a.saltIntake, p.saltIntake),
    exerciseLevel |-> Max2(a.exerciseLevel, p.exerciseLevel) ]

\* The harmful setting of every slider.
allHarmful(p) == shifted(p, -1, -5, 15, 25, -1)

\* The adjustments of the state with one component set the harmful way.
oneHarmful(p, a) ==
  { [a EXCEPT ![f] = allHarmful(p)[f]] : f \in AdjustmentFields }

RiskFields ==
  { "stoneRisk", "ckdProgressionRisk", "cardiovascularRisk", "stressIndex",
    "akirisk", "infectionRisk" }

notWorseThan(m, reference) ==
  /\ m.gfr >= reference.gfr
  /\ \A f \in RiskFields : m[f] <= reference[f]

C29_HarmfulAdjustmentsIgnored ==
  pc = "simulated" =>
    /\ simulated = simulateTreatment(baseline, patient, treatments,
                                     harmfulRemoved(patient, adjustments))
    /\ \A a \in oneHarmful(patient, adjustments) :
         simulateTreatment(baseline, patient, treatments, a)
           = simulateTreatment(baseline, patient, treatments,
                               harmfulRemoved(patient, a))
    /\ notWorseThan(simulated,
                    simulateTreatment(baseline, patient, treatments,
                                      defaultAdj(patient)))

\* Every slider is set the harmful way over a list of treatments, and the
\* snapshot is the one of the patient's own values.
C29_Witness ==
  /\ pc = "simulated"
  /\ Len(treatments) > 0
  /\ adjustments = allHarmful(patient)
  /\ \A f \in AdjustmentFields : adjustments[f] # defaultAdj(patient)[f]
  /\ simulated = simulateTreatment(baseline, patient, treatments,
                                   defaultAdj(patient))

====
